---- MODULE Spec2Model ----
(***************************************************************************)
(* Model of the scheduled dispatch engine (the scheduler edge function,    *)
(* src/unnamed/part_004) together with the writers that race with it: the  *)
(* disconnect handler of whapi-simple and the owner's cancellation of a    *)
(* pending row.                                                            *)
(*                                                                         *)
(* Every `await` of the scheduler is a step of its own, so that two        *)
(* invocations interleave at exactly the points where the code yields.     *)
(* The insert into message_history that follows a fetch is taken in the    *)
(* same step as the fetch: the table is append-only and no handler of the  *)
(* engine reads it.  handleDisconnect is one step: the scheduler reads     *)
(* only the profiles row, which the handler writes once, at its end.       *)
(*                                                                         *)
(* The second half models the connection handlers: connect, status and    *)
(* disconnect of whapi-simple, connect and status of part_007,             *)
(* whapi-check-status, whapi-partner-login, the get-qr function of         *)
(* part_006, create-channel of part_003, the partner get-qr of part_005    *)
(* and the two webhook receivers, again one step per `await`,              *)
(* working on the table profiles and on the gateway's channels.  The       *)
(* classes QrProcessor and DatabaseService that get-qr imports are not     *)
(* among the sources; what get-qr needs of them follows the design         *)
(* document.                                                               *)
(*                                                                         *)
(* Specifications:                                                         *)
(*   Spec        one invocation over a table of NumMsgs rows               *)
(*   SpecLoop    one invocation over one row with up to MaxGroups groups   *)
(*   SpecRace    two overlapping invocations                               *)
(*   SpecFault   one invocation whose store writes may raise               *)
(*   SpecSelect  the due query alone, on tables larger than its limit      *)
(*   SpecConn    the connection handlers, one invocation after the other   *)
(*   SpecStamp   status polls, webhook events and disconnects, two at a    *)
(*               time, with the clock running                              *)
(*   SpecTerm    connect calls of a user who starts without a channel,     *)
(*               under weak fairness of the handler's steps                *)
(*   SpecQr      requests for the pairing code, one after the other        *)
(*   SpecAct     sync-groups and send-message of whapi-simple, with the    *)
(*               status polls and disconnects that change the row          *)
(*   SpecSched   schedule-message of whapi-simple while one invocation of  *)
(*               the scheduler runs                                        *)
(*   SpecPair    two connect calls of whapi-simple at a time               *)
(*   SpecCreate  the create-channel function of part_003                   *)
(***************************************************************************)
EXTENDS Integers, Sequences, FiniteSets, Bags, TLC

\* ------------------------------------------------------------------ bounds
NumMsgs   == 2      \* rows of scheduled_messages when a batch is processed
FewGroups == 1      \* longest group_ids array of a row of such a batch
MaxGroups == 3      \* longest group_ids array when one row is processed
MaxTime   == 2      \* the clock runs 1..MaxTime
SelRows   == 13     \* rows of scheduled_messages when the due query is run

\* ------------------------------------------------------- program constants
BatchLimit == 10    \* .limit(10)

NULL == "null"
Passes == {"p1", "p2"}
Outcomes == {"ok", "nok", "throw"}
Terminal == {"sent", "partial", "failed"}

VARIABLES
  now,                 \* wall clock (new Date())
  profile,             \* the user's row of profiles
  channels,            \* channels that exist on the gateway
  scheduled_messages,  \* id -> [status, send_at, group_ids]
  message_history,     \* bag of [scheduled_message_id, group_id, status, by]
  pc,                  \* pass -> position in the handler
  batch,               \* pass -> rows of pendingMessages not yet iterated
  snap,                \* pass -> message.profiles as joined by the select
  cur,                 \* pass -> id of `message` (0 before the first)
  gi,                  \* pass -> index into message.group_ids
  successCount, failCount, finalStatus,
  sendLog,             \* every fetch issued: [by, id, idx]
  profiles,            \* user id -> row of profiles (connection columns)
  calls,               \* call slot -> the handler invocation running in it
  issued               \* number of channels the gateway has created so far

vars == <<now, profile, channels, scheduled_messages, message_history, pc,
          batch, snap, cur, gi, successCount, failCount, finalStatus,
          sendLog, profiles, calls, issued>>

\* the state of the connection handlers
connVars == <<profiles, calls, issued>>

\* what the connection handlers leave alone
dispatchVars == <<now, profile, scheduled_messages, message_history, sendLog,
                  pc, batch, snap, cur, gi, successCount, failCount,
                  finalStatus>>

passVars == <<pc, batch, snap, cur, gi, successCount, failCount, finalStatus>>

\* ----------------------------------------------------------------- helpers
Ids == DOMAIN scheduled_messages

GroupList(k) == [i \in 1..k |-> i]

ProfileStates ==
  { [instance_id |-> "ch1", whapi_token |-> "tok1", instance_status |-> "connected"],
    [instance_id |-> "ch1", whapi_token |-> "tok1", instance_status |-> "unauthorized"],
    [instance_id |-> NULL,  whapi_token |-> NULL,   instance_status |-> "disconnected"] }

SetStatus(rows, id, st) == [rows EXCEPT ![id].status = st]

Min(a, b) == IF a <= b THEN a ELSE b

\* the due query with the .lte('send_at', ...) filter left out
DueRowsNoTime(rows, t) ==
  { id \in DOMAIN rows : rows[id].status = "pending" }

\* .eq('status', 'pending').lte('send_at', now)
DueRows(rows, t) ==
  { id \in DOMAIN rows : rows[id].status = "pending" /\ rows[id].send_at <= t }

\* .limit(10) with no .order(): the store may return any BatchLimit of the
\* matching rows, in any order.  A batch is kept as the set of rows still to
\* be iterated and the loop takes any of them next.
Limited(S) ==
  { B \in SUBSET S : Cardinality(B) = Min(BatchLimit, Cardinality(S)) }

DueBatches(rows, t) == Limited(DueRows(rows, t))

\* profiles!inner(whapi_token, instance_status)
Joined(prof) ==
  [whapi_token |-> prof.whapi_token, instance_status |-> prof.instance_status]

\* the gate testing the credential only
GateTokenOnly(prof) == prof.whapi_token # NULL

\* !( !profile.whapi_token || profile.instance_status !== 'connected' )
GateOk(prof) == prof.whapi_token # NULL /\ prof.instance_status = "connected"

\* the rollup without its 'partial' branch
FinalStatusNoPartial(s, f) == IF s > 0 THEN "sent" ELSE "failed"

\* successCount > 0 ? (failCount > 0 ? 'partial' : 'sent') : 'failed'
FinalStatus(s, f) ==
  IF s > 0 THEN (IF f > 0 THEN "partial" ELSE "sent") ELSE "failed"

\* the send loop left at the first raised error
NextIdxAbort(o, i, n) == IF o = "throw" THEN n + 1 ELSE i + 1

\* the for-of over message.group_ids: the inner catch falls through to the
\* next iteration whatever the outcome of this one was
NextIdx(o, i, n) == i + 1

\* end of one iteration of the outer for-of: next row, or the 200 response
NextPc(b) == IF b = {} THEN "done" ELSE "loop"

\* the per-message catch leaving the outer loop
AfterCatchAbort(b) == "done"

\* the per-message catch (lines 141-150) ends the iteration like any other
AfterCatch(b) == NextPc(b)

\* a status write that is never issued
FinalWriteSkipped(rows, id, st) == rows

\* .update({ status: 'sending' }).eq('id', message.id)
ClaimWrite(rows, id) == SetStatus(rows, id, "sending")

\* .update({ status: finalStatus, ... }).eq('id', message.id)
FinalWrite(rows, id, st) == SetStatus(rows, id, st)

HistoryRow(p, id, g, st) ==
  [scheduled_message_id |-> id, group_id |-> g, status |-> st, by |-> p]

\* ------------------------------------------------------------------- state
TypeOK ==
  /\ now \in 1..MaxTime + SelRows
  /\ profile \in ProfileStates
  /\ channels \subseteq {"ch1"}
  /\ pc \in [Passes -> {"idle", "loop", "markfailed", "send", "final", "catch",
                        "done"}]
  /\ \A p \in Passes : batch[p] \subseteq Ids /\ cur[p] \in Ids \cup {0}

\* `starting`: the invocations of the function that take place
InitPasses(starting) ==
  /\ pc = [p \in Passes |-> IF p \in starting THEN "idle" ELSE "done"]
  /\ batch = [p \in Passes |-> {}]
  /\ snap = [p \in Passes |-> Joined(profile)]
  /\ cur = [p \in Passes |-> 0]
  /\ gi = [p \in Passes |-> 1]
  /\ successCount = [p \in Passes |-> 0]
  /\ failCount = [p \in Passes |-> 0]
  /\ finalStatus = [p \in Passes |-> "none"]
  /\ sendLog = {}
  /\ message_history = EmptyBag

\* Rows as handleScheduleMessage stores them: status defaults to 'pending'.
\* Row ids are opaque (uuids), so the rows are numbered by ascending send_at;
\* the order in which the store returns them stays arbitrary.
InitStore(rows, maxGroups) ==
  /\ now = 1
  /\ profile \in ProfileStates
  /\ channels = IF profile.instance_id = NULL THEN {} ELSE {profile.instance_id}
  /\ scheduled_messages \in
       [1..rows -> [status : {"pending"}, send_at : 1..MaxTime,
                       group_ids : {GroupList(k) : k \in 0..maxGroups}]]
  /\ \A i, j \in 1..rows :
       i < j => scheduled_messages[i].send_at <= scheduled_messages[j].send_at

\* -------------------------------------------------- connection model: data
\* The connection handlers (whapi-simple, its variant in part_007,
\* whapi-check-status, whapi-partner-login and the two webhook receivers)
\* work on the table `profiles` and on the gateway.  Every `await` of a
\* handler is one step; the synchronous code that follows it, which builds
\* the next request and so takes its `new Date()`, belongs to that step,
\* while the request takes effect in the next one.

MaxChannels == 2    \* channels the gateway creates in one behaviour

\* the loops of the two handleConnect: rounds, and milliseconds of delay
PollAttempts == 8
maxAttempts == 12
InitWait == 3000
PollDelay == 2000

\* get-qr: retries of the pairing-code request, milliseconds of the first
\* delay, and the age in milliseconds a channel must have
maxRetries == 2
baseDelay == 2000
MinAge == 60000

Users == {"u1", "u2"}
\* the user the user-invoked actions are called for; u2 is a bystander row
Caller == "u1"
Slots == {"c1", "c2"}

Chan(i) == "ch" \o ToString(i)
Tok(i) == "tok" \o ToString(i)
ChannelIds == { Chan(i) : i \in 1..MaxChannels }
\* the channel a bearer token authenticates
ChannelOf(tok) == Chan(CHOOSE i \in 1..MaxChannels : Tok(i) = tok)

\* status strings the gateway reports, one or more for every branch
RemoteStatuses == {"authenticated", "ready", "active", "qr"}

\* a status string none of the mappings below names
UnlistedStatuses == {"launched"}

\* the answers that carry no status: !res.ok with 404, and any other failure
Failures == {"notfound", "error"}

\* channel ids a webhook event can carry: none, an issued one, a foreign one
EventIds == {NULL, "chX"} \cup ChannelIds

\* whapi-simple handleStatus, lines 382-390
PollStatus(r) ==
  IF r \in {"authenticated", "ready"} THEN "connected"
  ELSE IF r \in {"qr", "unauthorized"} THEN "unauthorized"
  ELSE "disconnected"

\* whapi-webhook-simple, lines 32-38
WebhookSimpleStatus(r) ==
  IF r \in {"authenticated", "ready"} THEN "connected"
  ELSE IF r \in {"qr", "unauthorized"} THEN "unauthorized"
  ELSE "disconnected"

\* whapi-webhook, lines 57-73
WebhookStatus(r) ==
  IF r = "unauthorized" THEN "unauthorized"
  ELSE IF r = "ready" THEN "authorized"
  ELSE IF r = "authenticated" THEN "connected"
  ELSE IF r = "qr" THEN "unauthorized"
  ELSE r

\* whapi-check-status, line 146
IsConnected(r) == r \in {"active", "connected"}

\* part_007 handleConnect, lines 144-146 and 158-162
MgrConnected(r) == r \in {"active", "authenticated", "connected"}
MgrNeedsQR(r) == r \in {"qr", "pending", "launched", "waiting", "unauthorized"}

Row(id, tok, st, t) ==
  [instance_id |-> id, whapi_token |-> tok, instance_status |-> st,
   updated_at |-> t]

\* .update({ instance_status, updated_at })
StatusUpdate(rec, st, t) ==
  [rec EXCEPT !.instance_status = st, !.updated_at = t]

\* .update({ instance_id: null, whapi_token: null, 'disconnected', ... })
Cleared(rec, t) == Row(NULL, NULL, "disconnected", t)

\* .update({ instance_id, whapi_token, instance_status, ... }); a key whose
\* value is undefined is left out of the request body
SaveChannel(rec, id, tok, st, t) ==
  Row(id, IF tok = "undefined" THEN rec.whapi_token ELSE tok, st, t)

NoSnap == [instance_id |-> NULL, whapi_token |-> NULL, instance_status |-> NULL]
Snapshot(rec) ==
  [instance_id |-> rec.instance_id, whapi_token |-> rec.whapi_token,
   instance_status |-> rec.instance_status]

\* a slot in which no handler runs; `kind`, `remote`, `ev`, `wrote`, `resp`
\* and `code`, the pairing code in the body of the response, of a finished
\* call stay readable until the slot is taken again
IdleCall ==
  [kind |-> "none", pc |-> "done", snap |-> NoSnap, remote |-> NULL,
   ev |-> NULL, found |-> NULL, chan |-> NULL, tok |-> NULL, stamp |-> 0,
   ops |-> {}, wrote |-> NULL, resp |-> NULL, nth |-> 1, polled |-> NULL,
   attempts |-> 0, slept |-> <<>>, age |-> -1, code |-> NULL]

\* a slot in which no invocation takes place
ClosedSlot == [IdleCall EXCEPT !.pc = "closed"]

\* the handler resumes after an await and runs to its next await
Step(call, to) == [call EXCEPT !.pc = to, !.stamp = now]

\* the handler returns `resp`
Finish(call, resp) ==
  [IdleCall EXCEPT !.kind = call.kind, !.remote = call.remote,
                   !.ev = call.ev, !.wrote = call.wrote, !.resp = resp,
                   !.nth = call.nth, !.code = call.code]

\* what a request authenticated by `id` gets from the gateway: "notfound"
\* once the channel is deleted, else a transport error or a status
Reports(id) ==
  IF id \in channels THEN {"error"} \cup RemoteStatuses \cup UnlistedStatuses
  ELSE Failures

\* what the gateway's pairing-code request answers with: the encoded bytes
\* of an image, or an image that already carries its format
QrBodies ==
  {"iVBOR", "data:image/png;base64,iVBOR", "data:image/jpeg;base64,/9j"}

StartsWith(s, p) == Len(s) >= Len(p) /\ SubSeq(s, 1, Len(p)) = p

\* whapi-simple lines 163-165 and 310-312, part_007 lines 355-357
QrImage(qr) ==
  IF ~StartsWith(qr, "data:image/") THEN "data:image/png;base64," \o qr
  ELSE qr

\* QrProcessor.processQrResponse, as the design document describes it
ProcessQrResponse(qr) ==
  IF StartsWith(qr, "data:image/") THEN qr
  ELSE "data:image/png;base64," \o qr

\* no connection handler runs while the dispatch engine is examined
ConnIdle ==
  /\ profiles = [u \in Users |-> Row(NULL, NULL, "disconnected", 0)]
  /\ calls = [c \in Slots |-> IdleCall]
  /\ issued = 0

\* one invocation of the function over a table of several rows
Init == InitStore(NumMsgs, FewGroups) /\ InitPasses({"p1"}) /\ ConnIdle

\* one invocation over a single row with a long recipient list
InitLoop == InitStore(1, MaxGroups) /\ InitPasses({"p1"}) /\ ConnIdle

\* two invocations, overlapping in every possible way
InitRace == InitStore(NumMsgs, FewGroups) /\ InitPasses(Passes) /\ ConnIdle

\* the table the due query is run on: k due pending rows with send_at
\* 1..k (the last one due exactly now when k = SelRows), j pending rows due
\* in the future, and the rest already taken out of 'pending'
InitSelect ==
  /\ now = SelRows
  /\ profile \in ProfileStates
  /\ channels = IF profile.instance_id = NULL THEN {} ELSE {profile.instance_id}
  /\ \E k \in 0..SelRows : \E j \in 0..(SelRows - k) :
     \E st \in {"sending", "sent", "partial", "failed", "cancelled"} :
       scheduled_messages =
         [i \in 1..SelRows |->
            IF i <= k THEN [status |-> "pending", send_at |-> i,
                            group_ids |-> GroupList(1)]
            ELSE IF i <= k + j
                   THEN [status |-> "pending", send_at |-> SelRows + 1,
                         group_ids |-> GroupList(1)]
                   ELSE [status |-> st, send_at |-> i,
                         group_ids |-> GroupList(1)]]
  /\ InitPasses({"p1"})
  /\ ConnIdle

\* ----------------------------------------------------------------- actions
\* lines 20-37: the due query, and the early return when nothing is due
Select(p) ==
  /\ pc[p] = "idle"
  /\ \E B \in DueBatches(scheduled_messages, now) :
       /\ batch' = [batch EXCEPT ![p] = B]
       /\ pc' = [pc EXCEPT ![p] = NextPc(B)]
  /\ snap' = [snap EXCEPT ![p] = Joined(profile)]
  /\ UNCHANGED <<now, profile, channels, scheduled_messages, message_history,
                 cur, gi, successCount, failCount, finalStatus, sendLog>>
  /\ UNCHANGED connVars

\* lines 41-64: take the next row, write 'sending', then the connection gate
\* on the joined profile and the counters' initialisation (both local)
Claim(p) ==
  /\ pc[p] = "loop"
  /\ \E m \in batch[p] :
       LET n == Len(scheduled_messages[m].group_ids) IN
       /\ cur' = [cur EXCEPT ![p] = m]
       /\ batch' = [batch EXCEPT ![p] = @ \ {m}]
       /\ scheduled_messages' = ClaimWrite(scheduled_messages, m)
       /\ gi' = [gi EXCEPT ![p] = 1]
       /\ successCount' = [successCount EXCEPT ![p] = 0]
       /\ failCount' = [failCount EXCEPT ![p] = 0]
       /\ IF ~GateOk(snap[p])
            THEN /\ pc' = [pc EXCEPT ![p] = "markfailed"]
                 /\ UNCHANGED finalStatus
            ELSE IF n = 0
              THEN /\ pc' = [pc EXCEPT ![p] = "final"]
                   /\ finalStatus' = [finalStatus EXCEPT ![p] = FinalStatus(0, 0)]
              ELSE /\ pc' = [pc EXCEPT ![p] = "send"]
                   /\ UNCHANGED finalStatus
  /\ UNCHANGED <<now, profile, channels, message_history, snap, sendLog>>
  /\ UNCHANGED connVars

\* successCount, failCount and finalStatus are scoped to one iteration
EndIteration(p) ==
  /\ gi' = [gi EXCEPT ![p] = 1]
  /\ successCount' = [successCount EXCEPT ![p] = 0]
  /\ failCount' = [failCount EXCEPT ![p] = 0]
  /\ finalStatus' = [finalStatus EXCEPT ![p] = "none"]

\* lines 51-60: the gate failed: write 'failed' and continue
MarkFailed(p) ==
  /\ pc[p] = "markfailed"
  /\ scheduled_messages' = FinalWrite(scheduled_messages, cur[p], "failed")
  /\ pc' = [pc EXCEPT ![p] = NextPc(batch[p])]
  /\ EndIteration(p)
  /\ UNCHANGED <<now, profile, channels, message_history, batch, snap, cur,
                 sendLog>>
  /\ UNCHANGED connVars

\* lines 67-129: one iteration of the send loop.  "ok": sendRes.ok, a 'sent'
\* row is inserted; "nok": a non-OK response, a 'failed' row is inserted;
\* "throw": fetch (or reading the body) raises, the catch only counts it.
Send(p) ==
  /\ pc[p] = "send"
  /\ \E o \in Outcomes :
       LET m == cur[p]
           ids == scheduled_messages[m].group_ids
           n == Len(ids)
           i == gi[p]
           s == successCount[p] + (IF o = "ok" THEN 1 ELSE 0)
           f == failCount[p] + (IF o = "ok" THEN 0 ELSE 1)
           j == NextIdx(o, i, n)
       IN
       /\ sendLog' = sendLog \cup
            {[by |-> p, id |-> m, idx |-> i]}
       /\ message_history' =
            CASE o = "ok"  -> message_history (+) SetToBag({HistoryRow(p, m, ids[i], "sent")})
              [] o = "nok" -> message_history (+) SetToBag({HistoryRow(p, m, ids[i], "failed")})
              [] OTHER     -> message_history
       /\ successCount' = [successCount EXCEPT ![p] = s]
       /\ failCount' = [failCount EXCEPT ![p] = f]
       /\ gi' = [gi EXCEPT ![p] = j]
       /\ IF j > n
            THEN /\ pc' = [pc EXCEPT ![p] = "final"]
                 /\ finalStatus' = [finalStatus EXCEPT ![p] = FinalStatus(s, f)]
            ELSE UNCHANGED <<pc, finalStatus>>
  /\ UNCHANGED <<now, profile, channels, scheduled_messages, batch, snap, cur>>
  /\ UNCHANGED connVars

\* lines 131-139: the final status write
Final(p) ==
  /\ pc[p] = "final"
  /\ scheduled_messages' = FinalWrite(scheduled_messages, cur[p], finalStatus[p])
  /\ pc' = [pc EXCEPT ![p] = NextPc(batch[p])]
  /\ EndIteration(p)
  /\ UNCHANGED <<now, profile, channels, message_history, batch, snap, cur,
                 sendLog>>
  /\ UNCHANGED connVars

\* A store write of the try body (lines 44-47, 53-59, 131-137) raises: the
\* row is left as it was and control passes to the per-message catch.
Raise(p) ==
  /\ \/ /\ pc[p] = "loop"
        /\ \E m \in batch[p] :
             /\ cur' = [cur EXCEPT ![p] = m]
             /\ batch' = [batch EXCEPT ![p] = @ \ {m}]
     \/ /\ pc[p] \in {"markfailed", "final"}
        /\ UNCHANGED <<cur, batch>>
  /\ pc' = [pc EXCEPT ![p] = "catch"]
  /\ EndIteration(p)
  /\ UNCHANGED <<now, profile, channels, scheduled_messages, message_history,
                 snap, sendLog>>
  /\ UNCHANGED connVars

\* lines 141-150: the per-message catch writes 'failed'; the loop goes on
Catch(p) ==
  /\ pc[p] = "catch"
  /\ scheduled_messages' = FinalWrite(scheduled_messages, cur[p], "failed")
  /\ pc' = [pc EXCEPT ![p] = AfterCatch(batch[p])]
  /\ UNCHANGED <<now, profile, channels, message_history, batch, snap, cur, gi,
                 successCount, failCount, finalStatus, sendLog>>
  /\ UNCHANGED connVars

\* whapi-simple handleDisconnect: best-effort remote delete, then the reset
Disconnect ==
  /\ \E del \in {"ok", "error", "throw"} :
       channels' = IF profile.instance_id # NULL /\ del = "ok"
                     THEN channels \ {profile.instance_id} ELSE channels
  /\ profile' = [instance_id |-> NULL, whapi_token |-> NULL,
                 instance_status |-> "disconnected"]
  /\ UNCHANGED <<now, scheduled_messages, message_history, sendLog>>
  /\ UNCHANGED passVars
  /\ UNCHANGED connVars

\* the owner sets a still pending row to 'cancelled'
Cancel(m) ==
  /\ scheduled_messages[m].status = "pending"
  /\ scheduled_messages' = SetStatus(scheduled_messages, m, "cancelled")
  /\ UNCHANGED <<now, profile, channels, message_history, sendLog>>
  /\ UNCHANGED passVars
  /\ UNCHANGED connVars

Tick ==
  /\ now < MaxTime
  /\ now' = now + 1
  /\ UNCHANGED <<profile, channels, scheduled_messages, message_history, sendLog>>
  /\ UNCHANGED passVars
  /\ UNCHANGED connVars

Next ==
  \/ \E p \in Passes : Select(p)
  \/ \E p \in Passes : Claim(p)
  \/ \E p \in Passes : MarkFailed(p)
  \/ \E p \in Passes : Send(p)
  \/ \E p \in Passes : Final(p)
  \/ Disconnect
  \/ \E m \in Ids : Cancel(m)
  \/ Tick

Spec == Init /\ [][Next]_vars

SpecLoop == InitLoop /\ [][Next]_vars

SpecRace == InitRace /\ [][Next]_vars

\* one invocation on its own, any of whose store writes may raise
NextFault ==
  \/ \E p \in Passes : Select(p)
  \/ \E p \in Passes : Claim(p)
  \/ \E p \in Passes : MarkFailed(p)
  \/ \E p \in Passes : Send(p)
  \/ \E p \in Passes : Final(p)
  \/ \E p \in Passes : Raise(p)
  \/ \E p \in Passes : Catch(p)

SpecFault == Init /\ [][NextFault]_vars

\* the due query alone, as a function of the table and the clock
NextSelect == \E p \in Passes : Select(p)

SpecSelect == InitSelect /\ [][NextSelect]_vars

\* ----------------------------------------------- connection model: actions
At(c, k, p) == calls[c].kind = k /\ calls[c].pc = p

UserKinds ==
  {"connect", "connectMgr", "status", "statusMgr", "check", "disconnect", "login"}
StatusKinds == {"status", "statusMgr", "check"}
WebhookKinds == {"webhook", "webhookSimple"}
ConnectKinds == {"connect", "connectMgr"}

\* the first await of a handler
FirstPc(k) == IF k = "login" THEN "create" ELSE "read"

\* a user-invoked action arrives
Start(c, k) ==
  /\ calls[c].pc = "done"
  /\ calls' = [calls EXCEPT ![c] =
                 [IdleCall EXCEPT !.kind = k, !.pc = FirstPc(k), !.stamp = now]]
  /\ UNCHANGED <<profiles, channels, issued>>
  /\ UNCHANGED dispatchVars

\* the gateway pushes a channel event { id, status } to receiver k
Deliver(c, k) ==
  /\ calls[c].pc = "done"
  /\ \E id \in EventIds : \E r \in RemoteStatuses :
       calls' = [calls EXCEPT ![c] =
                   [IdleCall EXCEPT !.kind = k, !.pc = "lookup", !.ev = id,
                                    !.remote = r, !.stamp = now]]
  /\ UNCHANGED <<profiles, channels, issued>>
  /\ UNCHANGED dispatchVars

\* the gateway pushes a channel event whose status no mapping names
DeliverUnlisted(c, k) ==
  /\ calls[c].pc = "done"
  /\ \E id \in EventIds : \E r \in UnlistedStatuses :
       calls' = [calls EXCEPT ![c] =
                   [IdleCall EXCEPT !.kind = k, !.pc = "lookup", !.ev = id,
                                    !.remote = r, !.stamp = now]]
  /\ UNCHANGED <<profiles, channels, issued>>
  /\ UNCHANGED dispatchVars

\* the gateway pushes once more the event it pushed last and got accepted
Redeliver(c) ==
  /\ calls[c].pc = "done" /\ calls[c].kind \in WebhookKinds
  /\ calls[c].resp = "received" /\ calls[c].nth = 1
  /\ calls' = [calls EXCEPT ![c] =
                 [IdleCall EXCEPT !.kind = calls[c].kind, !.pc = "lookup",
                                  !.ev = calls[c].ev, !.remote = calls[c].remote,
                                  !.stamp = now, !.nth = 2]]
  /\ UNCHANGED <<profiles, channels, issued>>
  /\ UNCHANGED dispatchVars

\* where both handleConnect go when the existing channel is of no use:
\* the old channel is deleted first if the row names one
AfterCheck(s) == IF s.instance_id # NULL THEN "cleanup" ELSE "create"

\* --- whapi-simple handleConnect
\* lines 113-120
connectRead(c) ==
  /\ At(c, "connect", "read")
  /\ LET s == Snapshot(profiles[Caller]) IN
       calls' = [calls EXCEPT ![c] =
                   [Step(@, IF s.whapi_token # NULL THEN "health"
                            ELSE AfterCheck(s)) EXCEPT !.snap = s]]
  /\ UNCHANGED <<profiles, channels, issued>>
  /\ UNCHANGED dispatchVars

\* lines 127-131 and 150
ConnectAfterHealth(h, s) ==
  IF h \in {"authenticated", "ready"} THEN "setconnected"
  ELSE IF h \in {"qr", "unauthorized"} THEN "qr"
  ELSE AfterCheck(s)

\* lines 123-131
connectHealth(c) ==
  /\ At(c, "connect", "health")
  /\ \E h \in Reports(ChannelOf(calls[c].snap.whapi_token)) :
       calls' = [calls EXCEPT ![c] =
                   [Step(@, ConnectAfterHealth(h, @.snap)) EXCEPT !.remote = h]]
  /\ UNCHANGED <<profiles, channels, issued>>
  /\ UNCHANGED dispatchVars

\* lines 132-147
connectSetConnected(c) ==
  /\ At(c, "connect", "setconnected")
  /\ profiles' = [profiles EXCEPT ![Caller] =
                    StatusUpdate(@, "connected", calls[c].stamp)]
  /\ calls' = [calls EXCEPT ![c] =
                 Finish([@ EXCEPT !.wrote = "connected"], "already_connected")]
  /\ UNCHANGED <<channels, issued>>
  /\ UNCHANGED dispatchVars

\* lines 153-164: the pairing code is fetched, or is not to be had
connectQR(c) ==
  /\ At(c, "connect", "qr")
  /\ \E qr \in QrBodies \cup {NULL} :
       calls' = [calls EXCEPT ![c] =
                   IF qr # NULL
                     THEN [Step(@, "setunauthorized") EXCEPT !.code = QrImage(qr)]
                     ELSE Step(@, AfterCheck(@.snap))]
  /\ UNCHANGED <<profiles, channels, issued>>
  /\ UNCHANGED dispatchVars

\* lines 165-184, and again 309-328 for the channel just created
connectSetUnauthorized(c) ==
  /\ At(c, "connect", "setunauthorized")
  /\ profiles' = [profiles EXCEPT ![Caller] =
                    StatusUpdate(@, "unauthorized", calls[c].stamp)]
  /\ calls' = [calls EXCEPT ![c] =
                 Finish([@ EXCEPT !.wrote = "unauthorized"], "qr_code")]
  /\ UNCHANGED <<channels, issued>>
  /\ UNCHANGED dispatchVars

\* lines 195-205 (part_007 181-191): best-effort delete of the old channel
connectCleanup(c) ==
  /\ calls[c].kind \in ConnectKinds /\ calls[c].pc = "cleanup"
  /\ \E del \in {"ok", "error", "throw"} :
       /\ channels' = IF del = "ok" THEN channels \ {calls[c].snap.instance_id}
                      ELSE channels
       /\ calls' = [calls EXCEPT ![c] =
                      [Step(@, "create") EXCEPT
                         !.ops = @ \cup {"delete"} \cup
                                 (IF del = "ok" THEN {} ELSE {"deletefailed"})]]
  /\ UNCHANGED <<profiles, issued>>
  /\ UNCHANGED dispatchVars

\* lines 208-245 (part_007 194-211): project lookup and channel creation;
\* a failure of either is thrown to the catch of Deno.serve
connectCreate(c) ==
  /\ calls[c].kind \in ConnectKinds /\ calls[c].pc = "create"
  /\ \/ /\ calls' = [calls EXCEPT ![c] = Finish(@, "error")]
        /\ UNCHANGED <<channels, issued>>
     \/ /\ issued < MaxChannels
        /\ issued' = issued + 1
        /\ channels' = channels \cup {Chan(issued + 1)}
        /\ calls' = [calls EXCEPT ![c] =
                       [Step(@, IF @.kind = "connect" THEN "webhook" ELSE "save")
                          EXCEPT !.chan = Chan(issued + 1),
                                 !.tok = Tok(issued + 1),
                                 !.ops = @ \cup {"create"}]]
  /\ UNCHANGED profiles
  /\ UNCHANGED dispatchVars

\* a webhook registration whose failure ends the handler
AfterWebhookFatal(call, wh, to) ==
  IF wh = "ok" THEN Step(call, to) ELSE Finish(call, "error")

\* lines 250-268 (part_007 272-277): the catch swallows a throw, the
\* response is not looked at
AfterWebhook(call, wh, to) == Step(call, to)

\* the registration request and what it leaves in the call
Registered(call, wh) ==
  [call EXCEPT !.ops = @ \cup {"webhook"} \cup
                       (IF wh = "ok" THEN {} ELSE {"webhookfailed"})]

\* lines 248-268: the webhook target is registered on the new channel
connectWebhook(c) ==
  /\ At(c, "connect", "webhook")
  /\ \E wh \in {"ok", "error", "throw"} :
       calls' = [calls EXCEPT ![c] = AfterWebhook(Registered(@, wh), wh, "save")]
  /\ UNCHANGED <<profiles, channels, issued>>
  /\ UNCHANGED dispatchVars

\* lines 271-279 (part_007 220-228)
connectSave(c) ==
  /\ calls[c].kind \in ConnectKinds /\ calls[c].pc = "save"
  /\ profiles' = [profiles EXCEPT ![Caller] =
                    SaveChannel(@, calls[c].chan, calls[c].tok, "initializing",
                                calls[c].stamp)]
  /\ calls' = [calls EXCEPT ![c] =
                 [Step(@, "wait") EXCEPT !.wrote = "initializing"]]
  /\ UNCHANGED <<channels, issued>>
  /\ UNCHANGED dispatchVars

\* line 284 (part_007 232): the fixed wait before the first round
connectWait(c) ==
  /\ calls[c].kind \in ConnectKinds /\ calls[c].pc = "wait"
  /\ calls' = [calls EXCEPT ![c] =
                 [Step(@, IF @.kind = "connect" THEN "poll" ELSE "mpoll")
                    EXCEPT !.slept = <<InitWait>>]]
  /\ UNCHANGED <<profiles, channels, issued>>
  /\ UNCHANGED dispatchVars

\* lines 334-335 (part_007 306-307): attempts++ and on to the delay
NextRound(call, to) == [Step(call, to) EXCEPT !.attempts = @ + 1]

\* lines 287-296: the health request of one round
connectPoll(c) ==
  /\ At(c, "connect", "poll")
  /\ \E h \in Reports(calls[c].chan) :
       calls' = [calls EXCEPT ![c] =
                   IF h \in {"qr", "unauthorized"} THEN Step(@, "pollqr")
                   ELSE NextRound(@, "polldelay")]
  /\ UNCHANGED <<profiles, channels, issued>>
  /\ UNCHANGED dispatchVars

\* lines 297-308: the pairing code is asked for, the delays in `slept`
\* after the channel was created
connectPollQR(c) ==
  /\ At(c, "connect", "pollqr")
  /\ \E qr \in QrBodies \cup {NULL} :
       calls' = [calls EXCEPT ![c] =
                   IF qr # NULL
                     THEN [Step(@, "setunauthorized") EXCEPT !.code = QrImage(qr)]
                     ELSE NextRound(@, "polldelay")]
  /\ UNCHANGED <<profiles, channels, issued>>
  /\ UNCHANGED dispatchVars

\* lines 335-345: the delay that ends a round, and the test of the loop
connectPollDelay(c) ==
  /\ At(c, "connect", "polldelay")
  /\ calls' = [calls EXCEPT ![c] =
                 IF @.attempts < PollAttempts
                   THEN [Step(@, "poll") EXCEPT !.slept = Append(@, PollDelay)]
                   ELSE Finish(@, "pending")]
  /\ UNCHANGED <<profiles, channels, issued>>
  /\ UNCHANGED dispatchVars

\* --- part_007 handleConnect
\* lines 106-113
connectMgrRead(c) ==
  /\ At(c, "connectMgr", "read")
  /\ LET s == Snapshot(profiles[Caller]) IN
       calls' = [calls EXCEPT ![c] =
                   [Step(@, IF s.instance_id # NULL /\ s.whapi_token # NULL
                              THEN "mcheck" ELSE AfterCheck(s))
                      EXCEPT !.snap = s]]
  /\ UNCHANGED <<profiles, channels, issued>>
  /\ UNCHANGED dispatchVars

\* lines 116-127 and 172-174
connectMgrCheck(c) ==
  /\ At(c, "connectMgr", "mcheck")
  /\ \E h \in Reports(calls[c].snap.instance_id) :
       calls' = [calls EXCEPT ![c] =
                   [(IF h \notin Failures THEN Step(@, "mwrite")
                     ELSE Step(@, AfterCheck(@.snap)))
                      EXCEPT !.remote = h]]
  /\ UNCHANGED <<profiles, channels, issued>>
  /\ UNCHANGED dispatchVars

\* lines 135-171: the reported status is stored as it is
connectMgrWrite(c) ==
  /\ At(c, "connectMgr", "mwrite")
  /\ profiles' = [profiles EXCEPT ![Caller] =
                    StatusUpdate(@, calls[c].remote, calls[c].stamp)]
  /\ LET r == calls[c].remote
         w == [calls[c] EXCEPT !.wrote = r] IN
       calls' = [calls EXCEPT ![c] =
                   IF MgrConnected(r) THEN Finish(w, "already_connected")
                   ELSE IF MgrNeedsQR(r) THEN Step(w, "mqr")
                   ELSE Step(w, AfterCheck(w.snap))]
  /\ UNCHANGED <<channels, issued>>
  /\ UNCHANGED dispatchVars

\* where handleConnect goes on when attemptGetQR has no code: to the end
\* of the round of the loop it was called in (lines 281-307), else to the
\* creation of a new channel (lines 165-177)
AfterQRFail(call) ==
  IF "create" \in call.ops THEN NextRound(call, "mpolldelay")
  ELSE Step(call, AfterCheck(call.snap))

\* attemptGetQR lines 335-380: the five QR endpoints, one after the other
connectMgrQR(c) ==
  /\ At(c, "connectMgr", "mqr")
  /\ \E qr \in QrBodies \cup {NULL} :
       calls' = [calls EXCEPT ![c] =
                   IF qr # NULL
                     THEN Finish([@ EXCEPT !.code = QrImage(qr)], "qr_code")
                     ELSE Step(@, "minit")]
  /\ UNCHANGED <<profiles, channels, issued>>
  /\ UNCHANGED dispatchVars

\* attemptGetQR lines 383-420: the three start endpoints; the first that
\* answers ok ends the search
connectMgrInit(c) ==
  /\ At(c, "connectMgr", "minit")
  /\ \E started \in BOOLEAN :
       calls' = [calls EXCEPT ![c] =
                   IF started THEN Step(@, "mstart") ELSE AfterQRFail(@)]
  /\ UNCHANGED <<profiles, channels, issued>>
  /\ UNCHANGED dispatchVars

\* attemptGetQR lines 404-407: delay(3000), then attemptGetQR once more
connectMgrRestart(c) ==
  /\ At(c, "connectMgr", "mstart")
  /\ calls' = [calls EXCEPT ![c] = Step(@, "mqr")]
  /\ UNCHANGED <<profiles, channels, issued>>
  /\ UNCHANGED dispatchVars

\* lines 238-251 and 302-307: the status request of one round
connectMgrPoll(c) ==
  /\ At(c, "connectMgr", "mpoll")
  /\ \E h \in Reports(calls[c].chan) :
       calls' = [calls EXCEPT ![c] =
                   IF h \notin Failures
                     THEN [Step(@, "mpollwrite") EXCEPT !.polled = h]
                     ELSE NextRound(@, "mpolldelay")]
  /\ UNCHANGED <<profiles, channels, issued>>
  /\ UNCHANGED dispatchVars

\* lines 256-301
connectMgrPollWrite(c) ==
  /\ At(c, "connectMgr", "mpollwrite")
  /\ profiles' = [profiles EXCEPT ![Caller] =
                    StatusUpdate(@, calls[c].polled, calls[c].stamp)]
  /\ LET r == calls[c].polled
         w == [calls[c] EXCEPT !.wrote = r] IN
       calls' = [calls EXCEPT ![c] =
                   IF MgrNeedsQR(r) THEN Step(w, "mwebhook")
                   ELSE IF MgrConnected(r) THEN Finish(w, "already_connected")
                   ELSE NextRound(w, "mpolldelay")]
  /\ UNCHANGED <<channels, issued>>
  /\ UNCHANGED dispatchVars

\* lines 271-277 and configureWebhook, lines 424-458
connectMgrWebhook(c) ==
  /\ At(c, "connectMgr", "mwebhook")
  /\ \E wh \in {"ok", "error", "throw"} :
       calls' = [calls EXCEPT ![c] = AfterWebhook(Registered(@, wh), wh, "mqr")]
  /\ UNCHANGED <<profiles, channels, issued>>
  /\ UNCHANGED dispatchVars

\* lines 306-319
connectMgrPollDelay(c) ==
  /\ At(c, "connectMgr", "mpolldelay")
  /\ calls' = [calls EXCEPT ![c] =
                 IF @.attempts < maxAttempts THEN Step(@, "mpoll")
                 ELSE Finish(@, "pending")]
  /\ UNCHANGED <<profiles, channels, issued>>
  /\ UNCHANGED dispatchVars

\* --- whapi-simple handleStatus
\* lines 350-365
statusRead(c) ==
  /\ At(c, "status", "read")
  /\ LET s == Snapshot(profiles[Caller]) IN
       calls' = [calls EXCEPT ![c] =
                   IF s.whapi_token = NULL THEN Finish(@, "no_instance")
                   ELSE [Step(@, "health") EXCEPT !.snap = s]]
  /\ UNCHANGED <<profiles, channels, issued>>
  /\ UNCHANGED dispatchVars

\* the body of the response, lines 407-416
StatusResp(h) ==
  IF h \in {"authenticated", "ready"} THEN "connected" ELSE "not_connected"

\* lines 367-392
statusHealth(c) ==
  /\ At(c, "status", "health")
  /\ \E h \in Reports(ChannelOf(calls[c].snap.whapi_token)) :
       calls' = [calls EXCEPT ![c] =
                   IF h \in Failures
                     THEN Finish([@ EXCEPT !.remote = h], "error")
                   ELSE IF PollStatus(h) # @.snap.instance_status
                     THEN [Step(@, "write") EXCEPT !.remote = h]
                     ELSE Finish([@ EXCEPT !.remote = h], StatusResp(h))]
  /\ UNCHANGED <<profiles, channels, issued>>
  /\ UNCHANGED dispatchVars

\* lines 393-417
statusWrite(c) ==
  /\ At(c, "status", "write")
  /\ profiles' = [profiles EXCEPT ![Caller] =
                    StatusUpdate(@, PollStatus(calls[c].remote), calls[c].stamp)]
  /\ calls' = [calls EXCEPT ![c] =
                 Finish([@ EXCEPT !.wrote = PollStatus(calls[c].remote)],
                        StatusResp(@.remote))]
  /\ UNCHANGED <<channels, issued>>
  /\ UNCHANGED dispatchVars

\* --- whapi-check-status
\* lines 44-56
checkRead(c) ==
  /\ At(c, "check", "read")
  /\ LET s == Snapshot(profiles[Caller]) IN
       calls' = [calls EXCEPT ![c] =
                   IF s.instance_id = NULL THEN Finish(@, "no_instance")
                   ELSE [Step(@, "verify") EXCEPT !.snap = s]]
  /\ UNCHANGED <<profiles, channels, issued>>
  /\ UNCHANGED dispatchVars

\* lines 62-76: the list of instances, if the request for it succeeds
checkVerify(c) ==
  /\ At(c, "check", "verify")
  /\ \E listed \in BOOLEAN :
       calls' = [calls EXCEPT ![c] =
                   IF listed /\ calls[c].snap.instance_id \notin channels
                     THEN [Step(@, "clear") EXCEPT !.remote = "notfound"]
                     ELSE Step(@, "cstatus")]
  /\ UNCHANGED <<profiles, channels, issued>>
  /\ UNCHANGED dispatchVars

\* a test that takes every failed request for the channel's absence
CheckGoneAny(h) == h \in Failures

\* line 115: statusResponse.status === 404
CheckGone(h) == h = "notfound"

\* lines 100-149
checkStatus(c) ==
  /\ At(c, "check", "cstatus")
  /\ \E h \in Reports(calls[c].snap.instance_id) :
       calls' = [calls EXCEPT ![c] =
                   IF h \in Failures /\ CheckGone(h)
                     THEN [Step(@, "clear") EXCEPT !.remote = h]
                   ELSE IF h \in Failures
                     THEN Finish([@ EXCEPT !.remote = h], "check_failed")
                   ELSE IF IsConnected(h) /\ @.snap.instance_status # "connected"
                     THEN [Step(@, "write") EXCEPT !.remote = h]
                     ELSE Finish([@ EXCEPT !.remote = h],
                                 IF IsConnected(h) THEN "connected"
                                 ELSE "not_connected")]
  /\ UNCHANGED <<profiles, channels, issued>>
  /\ UNCHANGED dispatchVars

\* lines 78-95 and 117-134
checkClear(c) ==
  /\ At(c, "check", "clear")
  /\ profiles' = [profiles EXCEPT ![Caller] = Cleared(@, calls[c].stamp)]
  /\ calls' = [calls EXCEPT ![c] =
                 Finish([@ EXCEPT !.wrote = "disconnected"],
                        "requiresNewInstance")]
  /\ UNCHANGED <<channels, issued>>
  /\ UNCHANGED dispatchVars

\* lines 151-168
checkWrite(c) ==
  /\ At(c, "check", "write")
  /\ profiles' = [profiles EXCEPT ![Caller] =
                    StatusUpdate(@, "connected", calls[c].stamp)]
  /\ calls' = [calls EXCEPT ![c] =
                 Finish([@ EXCEPT !.wrote = "connected"], "connected")]
  /\ UNCHANGED <<channels, issued>>
  /\ UNCHANGED dispatchVars

\* --- part_007 handleStatus
\* lines 462-477
statusMgrRead(c) ==
  /\ At(c, "statusMgr", "read")
  /\ LET s == Snapshot(profiles[Caller]) IN
       calls' = [calls EXCEPT ![c] =
                   IF s.instance_id = NULL THEN Finish(@, "no_instance")
                   ELSE [Step(@, "mgr") EXCEPT !.snap = s]]
  /\ UNCHANGED <<profiles, channels, issued>>
  /\ UNCHANGED dispatchVars

\* lines 480-495 and 515-520: the manager's answer; without one the gate
\* is asked, if the row holds a token
statusMgrCheck(c) ==
  /\ At(c, "statusMgr", "mgr")
  /\ \E h \in Reports(calls[c].snap.instance_id) :
       calls' = [calls EXCEPT ![c] =
                   IF h \notin Failures THEN [Step(@, "write") EXCEPT !.remote = h]
                   ELSE IF @.snap.whapi_token # NULL
                     THEN [Step(@, "health") EXCEPT !.remote = h]
                     ELSE Finish([@ EXCEPT !.remote = h], "error")]
  /\ UNCHANGED <<profiles, channels, issued>>
  /\ UNCHANGED dispatchVars

\* lines 497-513: the reported status is stored as it is
statusMgrWrite(c) ==
  /\ At(c, "statusMgr", "write")
  /\ profiles' = [profiles EXCEPT ![Caller] =
                    StatusUpdate(@, calls[c].remote, calls[c].stamp)]
  /\ calls' = [calls EXCEPT ![c] =
                 Finish([@ EXCEPT !.wrote = calls[c].remote],
                        IF MgrConnected(calls[c].remote) THEN "connected"
                        ELSE "not_connected")]
  /\ UNCHANGED <<channels, issued>>
  /\ UNCHANGED dispatchVars

\* lines 520-551: the fallback only answers
statusMgrHealth(c) ==
  /\ At(c, "statusMgr", "health")
  /\ \E h \in Reports(ChannelOf(calls[c].snap.whapi_token)) :
       calls' = [calls EXCEPT ![c] =
                   Finish(@, IF h \in Failures THEN "error" ELSE StatusResp(h))]
  /\ UNCHANGED <<profiles, channels, issued>>
  /\ UNCHANGED dispatchVars

\* --- handleDisconnect (whapi-simple 421-456, part_007 555-590)
\* lines 422-428
disconnectRead(c) ==
  /\ At(c, "disconnect", "read")
  /\ LET s == Snapshot(profiles[Caller]) IN
       calls' = [calls EXCEPT ![c] =
                   [Step(@, IF s.instance_id # NULL THEN "delete" ELSE "reset")
                      EXCEPT !.snap = s]]
  /\ UNCHANGED <<profiles, channels, issued>>
  /\ UNCHANGED dispatchVars

\* a failed delete ending the handler through the catch of Deno.serve
AfterDeleteFatal(call, del) ==
  IF del = "ok" THEN Step(call, "reset") ELSE Finish(call, "error")

\* lines 429-437: the catch swallows a throw, the response is not looked at
AfterDelete(call, del) == Step(call, "reset")

\* lines 429-436
disconnectDelete(c) ==
  /\ At(c, "disconnect", "delete")
  /\ \E del \in {"ok", "error", "throw"} :
       /\ channels' = IF del = "ok" THEN channels \ {calls[c].snap.instance_id}
                      ELSE channels
       /\ calls' = [calls EXCEPT ![c] =
                      AfterDelete([@ EXCEPT !.remote = del,
                                            !.ops = @ \cup {"delete"}], del)]
  /\ UNCHANGED <<profiles, issued>>
  /\ UNCHANGED dispatchVars

\* lines 439-455
disconnectReset(c) ==
  /\ At(c, "disconnect", "reset")
  /\ profiles' = [profiles EXCEPT ![Caller] = Cleared(@, calls[c].stamp)]
  /\ calls' = [calls EXCEPT ![c] =
                 Finish([@ EXCEPT !.wrote = "disconnected"], "success")]
  /\ UNCHANGED <<channels, issued>>
  /\ UNCHANGED dispatchVars

\* --- the webhook receivers
\* a lookup that pays no attention to the channel id
MatchingAny(table, id) == DOMAIN table

\* .eq('instance_id', id): the rows whose channel is the event's
Matching(table, id) == { u \in DOMAIN table : table[u].instance_id = id }

\* an update that takes the row's present status into account
WebhookUpdateFlip(rec, st, t) ==
  StatusUpdate(rec, IF rec.instance_status = st THEN "disconnected" ELSE st, t)

\* the update both receivers issue: { instance_status, updated_at }
WebhookUpdate(rec, st, t) == StatusUpdate(rec, st, t)

\* whapi-webhook lines 25-49 and 94-96
webhookLookup(c) ==
  /\ At(c, "webhook", "lookup")
  /\ LET m == IF calls[c].ev = NULL THEN {} ELSE Matching(profiles, calls[c].ev) IN
       \/ /\ m = {}
          /\ calls' = [calls EXCEPT ![c] = Finish(@, "received")]
       \/ /\ calls[c].ev # NULL
          /\ calls' = [calls EXCEPT ![c] = Finish(@, "error")]
       \/ \E u \in m :
            calls' = [calls EXCEPT ![c] =
                        [Step(@, "write") EXCEPT !.found = u,
                                                 !.snap = Snapshot(profiles[u])]]
  /\ UNCHANGED <<profiles, channels, issued>>
  /\ UNCHANGED dispatchVars

\* whapi-webhook lines 57-93: the row is addressed by its id
webhookWrite(c) ==
  /\ At(c, "webhook", "write")
  /\ profiles' = [profiles EXCEPT ![calls[c].found] =
                    WebhookUpdate(@, WebhookStatus(calls[c].remote),
                                  calls[c].stamp)]
  /\ calls' = [calls EXCEPT ![c] =
                 Finish([@ EXCEPT !.wrote = WebhookStatus(calls[c].remote)], "received")]
  /\ UNCHANGED <<channels, issued>>
  /\ UNCHANGED dispatchVars

\* whapi-webhook-simple lines 23-31
webhookSimpleLookup(c) ==
  /\ At(c, "webhookSimple", "lookup")
  /\ LET m == IF calls[c].ev = NULL THEN {} ELSE Matching(profiles, calls[c].ev) IN
       calls' = [calls EXCEPT ![c] =
                   IF m = {} THEN Finish(@, "received") ELSE Step(@, "write")]
  /\ UNCHANGED <<profiles, channels, issued>>
  /\ UNCHANGED dispatchVars

\* whapi-webhook-simple lines 32-49: the rows are addressed by instance_id
webhookSimpleWrite(c) ==
  /\ At(c, "webhookSimple", "write")
  /\ profiles' =
       [u \in DOMAIN profiles |->
          IF u \in Matching(profiles, calls[c].ev)
            THEN WebhookUpdate(profiles[u], WebhookSimpleStatus(calls[c].remote),
                               calls[c].stamp)
            ELSE profiles[u]]
  /\ calls' = [calls EXCEPT ![c] =
                 Finish([@ EXCEPT !.wrote = WebhookSimpleStatus(calls[c].remote)],
                        "received")]
  /\ UNCHANGED <<channels, issued>>
  /\ UNCHANGED dispatchVars

\* --- whapi-partner-login
\* lines 47-116: partner login and instance creation; the answer may lack
\* a token
loginCreate(c) ==
  /\ At(c, "login", "create")
  /\ \/ /\ calls' = [calls EXCEPT ![c] = Finish(@, "error")]
        /\ UNCHANGED <<channels, issued>>
     \/ /\ issued < MaxChannels
        /\ issued' = issued + 1
        /\ channels' = channels \cup {Chan(issued + 1)}
        /\ \E tok \in {Tok(issued + 1), "undefined"} :
             calls' = [calls EXCEPT ![c] =
                         [Step(@, "save") EXCEPT !.chan = Chan(issued + 1),
                                                 !.tok = tok,
                                                 !.ops = @ \cup {"create"}]]
  /\ UNCHANGED profiles
  /\ UNCHANGED dispatchVars

\* lines 119-151
loginSave(c) ==
  /\ At(c, "login", "save")
  /\ profiles' = [profiles EXCEPT ![Caller] =
                    SaveChannel(@, calls[c].chan, calls[c].tok, "created",
                                calls[c].stamp)]
  /\ calls' = [calls EXCEPT ![c] =
                 Finish([@ EXCEPT !.wrote = "created"], "created")]
  /\ UNCHANGED <<channels, issued>>
  /\ UNCHANGED dispatchVars

\* --- get-qr (part_006)
\* what the probe of /settings gets: ok from a channel that exists, else a
\* 404 or a failure of the transport or of the gateway
Probes(id) == IF id \in channels THEN {"ok", "error"} ELSE Failures

\* what the request for the pairing code gets: "transient" a 5xx or a 429,
\* "rejected" any other error status, "throw" a failure of the transport
QrAnswers(id) ==
  IF id \in channels THEN {"ok", "transient", "rejected", "throw"}
  ELSE {"notfound", "transient", "throw"}

\* DatabaseService.getChannelAge: milliseconds since the row's channel was
\* stored, -1 where it answers null
ChannelAges == {-1, 0, 45000, 60000}

\* QrProcessor.createErrorResponse(status, ...).retryable
Retryable(a) == a = "transient"

\* line 180: result.details?.status === 404 || result.requiresNewInstance
RequiresNewInstance(a) == a = "notfound"

\* a delay that does not grow
BackoffFixed(n) == baseDelay

\* lines 92 and 104: baseDelay * Math.pow(2, retryCount)
Backoff(n) == baseDelay * 2^n

\* DatabaseService.clearInvalidInstance
ClearInvalidInstance(rec, t) == Row(NULL, NULL, "disconnected", t)

\* lines 138-161
getqrRead(c) ==
  /\ At(c, "getqr", "read")
  /\ LET s == Snapshot(profiles[Caller]) IN
       calls' = [calls EXCEPT ![c] =
                   IF s.instance_id = NULL \/ s.whapi_token = NULL
                     THEN Finish(@, "missing_instance")
                     ELSE [Step(@, "age") EXCEPT !.snap = s]]
  /\ UNCHANGED <<profiles, channels, issued>>
  /\ UNCHANGED dispatchVars

\* lines 167-170
getqrAge(c) ==
  /\ At(c, "getqr", "age")
  /\ \E a \in ChannelAges :
       calls' = [calls EXCEPT ![c] =
                   [Step(@, IF a # -1 /\ a < MinAge THEN "agewait" ELSE "access")
                      EXCEPT !.age = a]]
  /\ UNCHANGED <<profiles, channels, issued>>
  /\ UNCHANGED dispatchVars

\* lines 169-172: delay(remainingWait)
getqrAgeWait(c) ==
  /\ At(c, "getqr", "agewait")
  /\ calls' = [calls EXCEPT ![c] =
                 [Step(@, "access") EXCEPT !.age = @ + (MinAge - @)]]
  /\ UNCHANGED <<profiles, channels, issued>>
  /\ UNCHANGED dispatchVars

\* attemptQrRetrieval lines 63-68 with checkChannelAccessibility, lines
\* 35-47: whatever is not an ok answer becomes the error result 404
getqrAccess(c) ==
  /\ At(c, "getqr", "access")
  /\ \E a \in Probes(ChannelOf(calls[c].snap.whapi_token)) :
       calls' = [calls EXCEPT ![c] =
                   IF a = "ok" THEN Step(@, "qr")
                   ELSE [Step(@, "clear") EXCEPT !.remote = a]]
  /\ UNCHANGED <<profiles, channels, issued>>
  /\ UNCHANGED dispatchVars

\* attemptQrRetrieval lines 73-111 and the handler's lines 177-193
getqrFetch(c) ==
  /\ At(c, "getqr", "qr")
  /\ \E a \in QrAnswers(ChannelOf(calls[c].snap.whapi_token)) :
     \E qr \in QrBodies :
       calls' = [calls EXCEPT ![c] =
                   IF a = "ok"
                     THEN Finish([@ EXCEPT !.code = ProcessQrResponse(qr)], "qr_code")
                   ELSE IF (Retryable(a) \/ a = "throw") /\ @.attempts < maxRetries
                     THEN [Step(@, "backoff") EXCEPT !.remote = a]
                   ELSE IF RequiresNewInstance(a)
                     THEN [Step(@, "clear") EXCEPT !.remote = a]
                   ELSE Finish([@ EXCEPT !.remote = a], "failed")]
  /\ UNCHANGED <<profiles, channels, issued>>
  /\ UNCHANGED dispatchVars

\* lines 92-95 and 104-107: the delay, then the next attempt
getqrBackoff(c) ==
  /\ At(c, "getqr", "backoff")
  /\ calls' = [calls EXCEPT ![c] =
                 [Step(@, "access") EXCEPT
                    !.slept = Append(@, Backoff(calls[c].attempts)),
                    !.attempts = @ + 1]]
  /\ UNCHANGED <<profiles, channels, issued>>
  /\ UNCHANGED dispatchVars

\* lines 180-188
getqrClear(c) ==
  /\ At(c, "getqr", "clear")
  /\ profiles' = [profiles EXCEPT ![Caller] =
                    ClearInvalidInstance(@, calls[c].stamp)]
  /\ calls' = [calls EXCEPT ![c] =
                 Finish([@ EXCEPT !.wrote = "disconnected"],
                        "requiresNewInstance")]
  /\ UNCHANGED <<channels, issued>>
  /\ UNCHANGED dispatchVars

\* --- the partner get-qr function (part_005)
\* lines 43-55
partnerQrRead(c) ==
  /\ At(c, "partnerQr", "read")
  /\ LET s == Snapshot(profiles[Caller]) IN
       calls' = [calls EXCEPT ![c] =
                   IF s.instance_id = NULL THEN Finish(@, "no_instance")
                   ELSE [Step(@, "qr") EXCEPT !.snap = s]]
  /\ UNCHANGED <<profiles, channels, issued>>
  /\ UNCHANGED dispatchVars

\* lines 61-110: qrData?.image || qrData?.qr_code is returned as it came
partnerQrFetch(c) ==
  /\ At(c, "partnerQr", "qr")
  /\ \E a \in IF calls[c].snap.instance_id \in channels THEN {"ok", "nok"}
              ELSE {"nok"} :
     \E qr \in QrBodies \cup {NULL} :
       calls' = [calls EXCEPT ![c] =
                   IF a # "ok" THEN Finish(@, "error")
                   ELSE IF qr = NULL THEN Finish(@, "no_qr")
                   ELSE Finish([@ EXCEPT !.code = qr], "qr_code")]
  /\ UNCHANGED <<profiles, channels, issued>>
  /\ UNCHANGED dispatchVars

\* --- the create-channel function (part_003)
\* lines 46-72: a row with a channel, a token and a status other than
\* 'disconnected' is answered with the channel it has
createRead(c) ==
  /\ At(c, "createChannel", "read")
  /\ \E read \in {"ok", "error"} :
       LET s == Snapshot(profiles[Caller]) IN
       calls' = [calls EXCEPT ![c] =
                   IF read = "error" THEN Finish(@, "error")
                   ELSE IF /\ s.instance_id # NULL /\ s.whapi_token # NULL
                           /\ s.instance_status # "disconnected"
                     THEN Finish(@, "existing")
                     ELSE [Step(@, "project") EXCEPT !.snap = s]]
  /\ UNCHANGED <<profiles, channels, issued>>
  /\ UNCHANGED dispatchVars

\* lines 77-115: the project id, asked of the gateway if not configured
createProject(c) ==
  /\ At(c, "createChannel", "project")
  /\ \E got \in BOOLEAN :
       calls' = [calls EXCEPT ![c] =
                   IF got THEN Step(@, "create") ELSE Finish(@, "error")]
  /\ UNCHANGED <<profiles, channels, issued>>
  /\ UNCHANGED dispatchVars

\* lines 120-170: PUT /channels
createCreate(c) ==
  /\ At(c, "createChannel", "create")
  /\ \/ /\ calls' = [calls EXCEPT ![c] = Finish(@, "error")]
        /\ UNCHANGED <<channels, issued>>
     \/ /\ issued < MaxChannels
        /\ issued' = issued + 1
        /\ channels' = channels \cup {Chan(issued + 1)}
        /\ calls' = [calls EXCEPT ![c] =
                       [Step(@, "webhook") EXCEPT !.chan = Chan(issued + 1),
                                                  !.tok = Tok(issued + 1),
                                                  !.ops = @ \cup {"create"}]]
  /\ UNCHANGED profiles
  /\ UNCHANGED dispatchVars

\* lines 176-202: the webhook target, whose failure is logged only
createWebhook(c) ==
  /\ At(c, "createChannel", "webhook")
  /\ \E wh \in {"ok", "error", "throw"} :
       calls' = [calls EXCEPT ![c] = Step(Registered(@, wh), "save")]
  /\ UNCHANGED <<profiles, channels, issued>>
  /\ UNCHANGED dispatchVars

\* a save whose failure is answered at once
AfterSaveNoCleanup(call, saved) ==
  IF saved = "ok"
    THEN Finish([call EXCEPT !.wrote = "initializing"], "created")
    ELSE Finish(call, "error")

\* lines 227-303: after an update that failed or returned no row the
\* cleanup follows; else the 200 response
AfterSave(call, saved) ==
  IF saved = "ok"
    THEN Finish([call EXCEPT !.wrote = "initializing"], "created")
    ELSE Step(call, "cleanup")

\* lines 214-225: .update({ instance_id, whapi_token, 'initializing', ... })
\* .eq('id', userId).select(); "norows": the update returned no row
createSave(c) ==
  /\ At(c, "createChannel", "save")
  /\ \E saved \in {"ok", "error", "norows"} :
       /\ profiles' = IF saved = "ok"
                        THEN [profiles EXCEPT ![Caller] =
                                SaveChannel(@, calls[c].chan, calls[c].tok,
                                            "initializing", calls[c].stamp)]
                        ELSE profiles
       /\ calls' = [calls EXCEPT ![c] = AfterSave(@, saved)]
  /\ UNCHANGED <<channels, issued>>
  /\ UNCHANGED dispatchVars

\* lines 231-256 and 265-282: DELETE /channels/{channelId} of the channel
\* just created, in a try/catch, then the 500 response; `remote` keeps
\* what the gateway answered
createCleanup(c) ==
  /\ At(c, "createChannel", "cleanup")
  /\ \E del \in {"ok", "error", "throw"} :
       /\ channels' = IF del = "ok" THEN channels \ {calls[c].chan}
                      ELSE channels
       /\ calls' = [calls EXCEPT ![c] = Finish([@ EXCEPT !.remote = del], "error")]
  /\ UNCHANGED <<profiles, issued>>
  /\ UNCHANGED dispatchVars

\* the gateway drops a channel without the program's doing
Expire ==
  /\ \E ch \in channels : channels' = channels \ {ch}
  /\ UNCHANGED <<profiles, calls, issued>>
  /\ UNCHANGED dispatchVars

\* ------------------------------------ whapi-simple: sync-groups, send-message
\* the two actions that talk to the gateway for a paired user.  `ops`
\* records what an invocation has done so far: "gateway" for a request to
\* the gateway, "groups" for a write to whatsapp_groups, "history" for an
\* insert into message_history.
ActionKinds == {"sync", "send"}

\* a gate that looks at the token only
ActionGateTokenOnly(s) == s.whapi_token # NULL

\* lines 466 and 546: !profile?.whapi_token || instance_status !== 'connected'
ActionGate(s) == s.whapi_token # NULL /\ s.instance_status = "connected"

\* lines 459-474 and 540-551: the profile is read and the gate is applied
actionRead(c) ==
  /\ calls[c].kind \in ActionKinds /\ calls[c].pc = "read"
  /\ LET s == Snapshot(profiles[Caller]) IN
       calls' = [calls EXCEPT ![c] =
                   IF ~ActionGate(s) THEN Finish(@, "not_connected")
                   ELSE [Step(@, IF @.kind = "sync" THEN "groups" ELSE "post")
                           EXCEPT !.snap = s]]
  /\ UNCHANGED <<profiles, channels, issued>>
  /\ UNCHANGED dispatchVars

\* lines 476-490: GET /groups
syncFetch(c) ==
  /\ At(c, "sync", "groups")
  /\ \E h \in {"ok", "nok"} :
       calls' = [calls EXCEPT ![c] =
                   IF h = "ok"
                     THEN [Step(@, "replace") EXCEPT !.ops = calls[c].ops \cup {"gateway"}]
                     ELSE Finish(@, "error")]
  /\ UNCHANGED <<profiles, channels, issued>>
  /\ UNCHANGED dispatchVars

\* lines 492-497: the user's rows of whatsapp_groups are deleted; the
\* insert follows if the gateway listed any group
syncDelete(c) ==
  /\ At(c, "sync", "replace")
  /\ \E some \in BOOLEAN :
       calls' = [calls EXCEPT ![c] =
                   IF some
                     THEN [Step(@, "insert") EXCEPT !.ops = calls[c].ops \cup {"groups"}]
                     ELSE Finish(@, "synced")]
  /\ UNCHANGED <<profiles, channels, issued>>
  /\ UNCHANGED dispatchVars

\* lines 499-526: the insert, whose error is thrown
syncInsert(c) ==
  /\ At(c, "sync", "insert")
  /\ \E o \in {"ok", "throw"} :
       calls' = [calls EXCEPT ![c] =
                   Finish(@, IF o = "ok" THEN "synced" ELSE "error")]
  /\ UNCHANGED <<profiles, channels, issued>>
  /\ UNCHANGED dispatchVars

\* lines 556-607: POST /messages/text for the next group of groupIds; a
\* thrown fetch is caught and the loop goes on without an insert
sendPost(c) ==
  /\ At(c, "send", "post")
  /\ \E o \in Outcomes : \E last \in BOOLEAN :
       /\ last \/ calls[c].attempts + 1 < MaxGroups
       /\ calls' = [calls EXCEPT ![c] =
                      LET call == [@ EXCEPT !.ops = calls[c].ops \cup {"gateway"},
                                            !.attempts = calls[c].attempts + 1,
                                            !.found = IF last THEN "last" ELSE "more"]
                      IN  IF o # "throw" THEN Step(call, "record")
                          ELSE IF last THEN Finish(call, "sent")
                          ELSE Step(call, "post")]
  /\ UNCHANGED <<profiles, channels, issued>>
  /\ UNCHANGED dispatchVars

\* lines 575-597: the insert into message_history, 'sent' or 'failed'
sendRecord(c) ==
  /\ At(c, "send", "record")
  /\ calls' = [calls EXCEPT ![c] =
                 LET call == [@ EXCEPT !.ops = calls[c].ops \cup {"history"}]
                 IN  IF call.found = "last" THEN Finish(call, "sent")
                     ELSE Step(call, "post")]
  /\ UNCHANGED <<profiles, channels, issued>>
  /\ UNCHANGED dispatchVars

\* ------------------------------------------- connection model: behaviours
\* the dispatch engine at rest: no rows, no invocation
DispatchIdle ==
  /\ now = 1
  /\ profile = [instance_id |-> NULL, whapi_token |-> NULL,
                instance_status |-> "disconnected"]
  /\ scheduled_messages = [i \in {} |-> 0]
  /\ InitPasses({})

\* the caller's row before the handlers run: no channel yet, or the first
\* channel paired or waiting to be paired; that channel may have been
\* deleted on the gateway behind the program's back
CallerRows ==
  {Row(NULL, NULL, "disconnected", 0), Row(Chan(1), Tok(1), "connected", 0),
   Row(Chan(1), Tok(1), "unauthorized", 0)}

\* `open`: the slots in which invocations take place
InitTable(rows, open) ==
  /\ \E r \in rows :
       /\ profiles = [u \in Users |->
                        IF u = Caller THEN r ELSE Row(NULL, NULL, "disconnected", 0)]
       /\ issued = IF r.instance_id = NULL THEN 0 ELSE 1
       /\ channels \in IF r.instance_id = NULL THEN {{}}
                       ELSE {{}, {r.instance_id}}
  /\ calls = [c \in Slots |-> IF c \in open THEN IdleCall ELSE ClosedSlot]

InitConn == DispatchIdle /\ InitTable(CallerRows, {"c1"})

NextConn ==
  \/ \E c \in Slots : \E k \in UserKinds : Start(c, k)
  \/ \E c \in Slots : \E k \in WebhookKinds : Deliver(c, k)
  \/ \E c \in Slots : \E k \in WebhookKinds : DeliverUnlisted(c, k)
  \/ \E c \in Slots : Redeliver(c)
  \/ \E c \in Slots : connectRead(c)
  \/ \E c \in Slots : connectHealth(c)
  \/ \E c \in Slots : connectSetConnected(c)
  \/ \E c \in Slots : connectQR(c)
  \/ \E c \in Slots : connectSetUnauthorized(c)
  \/ \E c \in Slots : connectCleanup(c)
  \/ \E c \in Slots : connectCreate(c)
  \/ \E c \in Slots : connectWebhook(c)
  \/ \E c \in Slots : connectSave(c)
  \/ \E c \in Slots : connectWait(c)
  \/ \E c \in Slots : connectPoll(c)
  \/ \E c \in Slots : connectPollQR(c)
  \/ \E c \in Slots : connectPollDelay(c)
  \/ \E c \in Slots : connectMgrRead(c)
  \/ \E c \in Slots : connectMgrCheck(c)
  \/ \E c \in Slots : connectMgrWrite(c)
  \/ \E c \in Slots : connectMgrQR(c)
  \/ \E c \in Slots : connectMgrInit(c)
  \/ \E c \in Slots : connectMgrRestart(c)
  \/ \E c \in Slots : connectMgrPoll(c)
  \/ \E c \in Slots : connectMgrPollWrite(c)
  \/ \E c \in Slots : connectMgrWebhook(c)
  \/ \E c \in Slots : connectMgrPollDelay(c)
  \/ \E c \in Slots : statusRead(c)
  \/ \E c \in Slots : statusHealth(c)
  \/ \E c \in Slots : statusWrite(c)
  \/ \E c \in Slots : statusMgrRead(c)
  \/ \E c \in Slots : statusMgrCheck(c)
  \/ \E c \in Slots : statusMgrWrite(c)
  \/ \E c \in Slots : statusMgrHealth(c)
  \/ \E c \in Slots : checkRead(c)
  \/ \E c \in Slots : checkVerify(c)
  \/ \E c \in Slots : checkStatus(c)
  \/ \E c \in Slots : checkClear(c)
  \/ \E c \in Slots : checkWrite(c)
  \/ \E c \in Slots : disconnectRead(c)
  \/ \E c \in Slots : disconnectDelete(c)
  \/ \E c \in Slots : disconnectReset(c)
  \/ \E c \in Slots : webhookLookup(c)
  \/ \E c \in Slots : webhookWrite(c)
  \/ \E c \in Slots : webhookSimpleLookup(c)
  \/ \E c \in Slots : webhookSimpleWrite(c)
  \/ \E c \in Slots : loginCreate(c)
  \/ \E c \in Slots : loginSave(c)

\* the handlers of one user, one invocation after the other
SpecConn == InitConn /\ [][NextConn]_vars

InitStamp ==
  /\ DispatchIdle
  /\ InitTable({Row(Chan(1), Tok(1), "connected", 0)}, Slots)
  /\ channels = {Chan(1)}

NextStamp ==
  \/ \E c \in Slots : \E k \in {"status", "disconnect"} : Start(c, k)
  \/ \E c \in Slots : \E k \in WebhookKinds : Deliver(c, k)
  \/ \E c \in Slots : statusRead(c)
  \/ \E c \in Slots : statusHealth(c)
  \/ \E c \in Slots : statusWrite(c)
  \/ \E c \in Slots : disconnectRead(c)
  \/ \E c \in Slots : disconnectDelete(c)
  \/ \E c \in Slots : disconnectReset(c)
  \/ \E c \in Slots : webhookLookup(c)
  \/ \E c \in Slots : webhookWrite(c)
  \/ \E c \in Slots : webhookSimpleLookup(c)
  \/ \E c \in Slots : webhookSimpleWrite(c)
  \/ Tick

\* status polls, webhook events and disconnects of one user, two at a time
\* and interleaved in every possible way, with the clock running
SpecStamp == InitStamp /\ [][NextStamp]_vars

\* a step of either handleConnect
ConnectStep(c) ==
  \/ connectRead(c)
  \/ connectHealth(c)
  \/ connectSetConnected(c)
  \/ connectQR(c)
  \/ connectSetUnauthorized(c)
  \/ connectCleanup(c)
  \/ connectCreate(c)
  \/ connectWebhook(c)
  \/ connectSave(c)
  \/ connectWait(c)
  \/ connectPoll(c)
  \/ connectPollQR(c)
  \/ connectPollDelay(c)
  \/ connectMgrRead(c)
  \/ connectMgrCheck(c)
  \/ connectMgrWrite(c)
  \/ connectMgrQR(c)
  \/ connectMgrInit(c)
  \/ connectMgrRestart(c)
  \/ connectMgrPoll(c)
  \/ connectMgrPollWrite(c)
  \/ connectMgrWebhook(c)
  \/ connectMgrPollDelay(c)

\* a user who has no channel yet
InitTerm == DispatchIdle /\ InitTable({Row(NULL, NULL, "disconnected", 0)}, {"c1"})

NextTerm ==
  \/ \E c \in Slots : \E k \in ConnectKinds : Start(c, k)
  \/ \E c \in Slots : ConnectStep(c)

\* connect calls of one user, the first for a user without a channel; the
\* runtime resumes a handler whenever the request it awaits has answered
SpecTerm == InitTerm /\ [][NextTerm]_vars /\ \A c \in Slots : WF_vars(ConnectStep(c))

InitQr == DispatchIdle /\ InitTable(CallerRows, {"c1"})

NextQr ==
  \/ \E c \in Slots : \E k \in {"getqr", "partnerQr"} : Start(c, k)
  \/ \E c \in Slots : partnerQrRead(c)
  \/ \E c \in Slots : partnerQrFetch(c)
  \/ \E c \in Slots : getqrRead(c)
  \/ \E c \in Slots : getqrAge(c)
  \/ \E c \in Slots : getqrAgeWait(c)
  \/ \E c \in Slots : getqrAccess(c)
  \/ \E c \in Slots : getqrFetch(c)
  \/ \E c \in Slots : getqrBackoff(c)
  \/ \E c \in Slots : getqrClear(c)
  \/ Expire

\* requests for the pairing code of one user, one after the other
SpecQr == InitQr /\ [][NextQr]_vars

\* sync-groups and send-message of a user whose row the status poll and the
\* disconnect handler change in between
InitAct == DispatchIdle /\ InitTable(CallerRows, {"c1"})

NextAct ==
  \/ \E c \in Slots : \E k \in ActionKinds \cup {"status", "disconnect"} : Start(c, k)
  \/ \E c \in Slots : actionRead(c)
  \/ \E c \in Slots : syncFetch(c)
  \/ \E c \in Slots : syncDelete(c)
  \/ \E c \in Slots : syncInsert(c)
  \/ \E c \in Slots : sendPost(c)
  \/ \E c \in Slots : sendRecord(c)
  \/ \E c \in Slots : statusRead(c)
  \/ \E c \in Slots : statusHealth(c)
  \/ \E c \in Slots : statusWrite(c)
  \/ \E c \in Slots : disconnectRead(c)
  \/ \E c \in Slots : disconnectDelete(c)
  \/ \E c \in Slots : disconnectReset(c)

SpecAct == InitAct /\ [][NextAct]_vars

\* ------------------------------------------- whapi-simple: schedule-message
MaxSched  == 2      \* rows handleScheduleMessage stores in one behaviour
TagGroups == 2      \* groups a request names or a tag is assigned to

\* the arrays a request carries as groupIds, and the rows the query on
\* group_tag_assignments returns, in any order and with repetitions
GroupSeqs ==
  UNION { [1..n -> 1..TagGroups] : n \in 0..TagGroups }

\* [...new Set(xs)]: the first occurrence of every element, in order
RECURSIVE Distinct(_)
Distinct(xs) ==
  IF xs = <<>> THEN <<>>
  ELSE LET front == Distinct(SubSeq(xs, 1, Len(xs) - 1))
           last == xs[Len(xs)]
       IN  IF \E i \in 1..Len(front) : front[i] = last THEN front
           ELSE Append(front, last)

\* lines 638-651: `tagged`, the groups of the assignments found, are merged
\* in only if tagIds is not empty and the query returned data
FinalGroupIds(groupIds, hasTags, resolved, tagged) ==
  IF hasTags /\ resolved THEN Distinct(groupIds \o tagged) ELSE groupIds

\* line 630, for a request that carries a message and a time
Rejected(groupIds, hasTags) == Len(groupIds) = 0 /\ ~hasTags

\* handleScheduleMessage, lines 627-682, in one step: the handler reads
\* group_tag_assignments once and writes once, the insert at its end
Schedule ==
  /\ Len(scheduled_messages) < MaxSched
  /\ \E groupIds \in GroupSeqs : \E hasTags, resolved, stored \in BOOLEAN :
     \E tagged \in GroupSeqs : \E sendAt \in 1..MaxTime :
       scheduled_messages' =
         IF Rejected(groupIds, hasTags) \/ ~stored THEN scheduled_messages
         ELSE Append(scheduled_messages,
                     [status |-> "pending", send_at |-> sendAt,
                      group_ids |->
                        FinalGroupIds(groupIds, hasTags, resolved, tagged)])
  /\ UNCHANGED <<now, profile, channels, message_history, sendLog>>
  /\ UNCHANGED passVars
  /\ UNCHANGED connVars

\* broadcasts are scheduled while one invocation of the scheduler runs
InitSched == InitStore(0, 0) /\ InitPasses({"p1"}) /\ ConnIdle

NextSched ==
  \/ Schedule
  \/ \E p \in Passes : Select(p)
  \/ \E p \in Passes : Claim(p)
  \/ \E p \in Passes : MarkFailed(p)
  \/ \E p \in Passes : Send(p)
  \/ \E p \in Passes : Final(p)
  \/ Tick

SpecSched == InitSched /\ [][NextSched]_vars

\* two connect calls of whapi-simple at a time for a user who has no channel
InitPair == DispatchIdle /\ InitTable({Row(NULL, NULL, "disconnected", 0)}, Slots)

NextPair ==
  \/ \E c \in Slots : Start(c, "connect")
  \/ \E c \in Slots : connectRead(c)
  \/ \E c \in Slots : connectHealth(c)
  \/ \E c \in Slots : connectSetConnected(c)
  \/ \E c \in Slots : connectQR(c)
  \/ \E c \in Slots : connectSetUnauthorized(c)
  \/ \E c \in Slots : connectCleanup(c)
  \/ \E c \in Slots : connectCreate(c)
  \/ \E c \in Slots : connectWebhook(c)
  \/ \E c \in Slots : connectSave(c)
  \/ \E c \in Slots : connectWait(c)
  \/ \E c \in Slots : connectPoll(c)
  \/ \E c \in Slots : connectPollQR(c)
  \/ \E c \in Slots : connectPollDelay(c)

SpecPair == InitPair /\ [][NextPair]_vars

\* create-channel calls of one user, with the status polls and disconnects
\* that change the row in between
InitCreate == DispatchIdle /\ InitTable(CallerRows, {"c1"})

NextCreate ==
  \/ \E c \in Slots : \E k \in {"createChannel", "status", "disconnect"} : Start(c, k)
  \/ \E c \in Slots : createRead(c)
  \/ \E c \in Slots : createProject(c)
  \/ \E c \in Slots : createCreate(c)
  \/ \E c \in Slots : createWebhook(c)
  \/ \E c \in Slots : createSave(c)
  \/ \E c \in Slots : createCleanup(c)
  \/ \E c \in Slots : statusRead(c)
  \/ \E c \in Slots : statusHealth(c)
  \/ \E c \in Slots : statusWrite(c)
  \/ \E c \in Slots : disconnectRead(c)
  \/ \E c \in Slots : disconnectDelete(c)
  \/ \E c \in Slots : disconnectReset(c)

SpecCreate == InitCreate /\ [][NextCreate]_vars

\* ------------------------------------------------------------ observations
Status(m) == scheduled_messages[m].status

RECURSIVE CountRows(_, _)
CountRows(S, bag) ==
  IF S = {} THEN 0
  ELSE LET r == CHOOSE x \in S : TRUE
       IN CopiesIn(r, bag) + CountRows(S \ {r}, bag)

\* rows of message_history a pass wrote for a broadcast
RowsOf(p, m) ==
  { r \in BagToSet(message_history) : r.by = p /\ r.scheduled_message_id = m }

RecordCount(p, m) == CountRows(RowsOf(p, m), message_history)

SentCount(p, m) ==
  CountRows({ r \in RowsOf(p, m) : r.status = "sent" }, message_history)

\* the fetches a pass issued for a broadcast
SendsBy(p, m) == { e \in sendLog : e.by = p /\ e.id = m }

Senders(m) == { e.by : e \in { x \in sendLog : x.id = m } }

\* what the pass saw of the owner's connection when it ran the due query
SawConnected(p) ==
  snap[p].whapi_token # NULL /\ snap[p].instance_status = "connected"

\* ------------------------------------------------------------------ claims

\* C1: two passes that selected the same due broadcast: the sends for it are
\* all performed by one of them.
C1_OnePassSends == \A m \in Ids : Cardinality(Senders(m)) <= 1

\* C2: every send attempt of a pass (success, non-OK response or raised
\* error) has left exactly one row in message_history.
C2_RecordPerAttempt ==
  \A p \in Passes : \A m \in Ids :
    RecordCount(p, m) = Cardinality(SendsBy(p, m))

\* C3: the status the final write stores is 'sent' when every recipient got
\* the message, 'partial' when some but not all did, 'failed' when none did
\* (an empty recipient list is a list none of whose recipients got it).
C3_Expected(p) ==
  LET m == cur[p]
      n == Len(scheduled_messages[m].group_ids)
      k == SentCount(p, m)
  IN IF k = 0 THEN "failed" ELSE IF k = n THEN "sent" ELSE "partial"

C4_AllAttempted ==
  \A p \in Passes :
    pc[p] = "final" =>
      { e.idx : e \in SendsBy(p, cur[p]) }
        = 1..Len(scheduled_messages[cur[p]].group_ids)

C4_Witness ==
  \E p \in Passes :
    /\ pc[p] = "final"
    /\ Len(scheduled_messages[cur[p]].group_ids) = 3
    /\ { r.group_id : r \in RowsOf(p, cur[p]) } = {3}
    /\ { e.idx : e \in SendsBy(p, cur[p]) } = {1, 2, 3}

\* C5: a pass that saw the owner's connection not connected, or without a
\* credential, issues no send and writes no message_history row; each row it
\* takes it sets to 'failed', and it goes on with the rest of its batch.
C5_NoSend ==
  \A p \in Passes :
    pc[p] # "idle" /\ ~SawConnected(p) =>
      /\ pc[p] \notin {"send", "final"}
      /\ \A m \in Ids : SendsBy(p, m) = {} /\ RecordCount(p, m) = 0

C5_MarkedFailed ==
  \A p \in Passes :
    pc[p] \notin {"idle", "loop", "done"} /\ pc'[p] \in {"loop", "done"}
      /\ ~SawConnected(p) =>
        /\ scheduled_messages'[cur[p]].status = "failed"
        /\ batch'[p] = batch[p]
        /\ pc'[p] = IF batch[p] = {} THEN "done" ELSE "loop"

C5_GateFails == []C5_NoSend /\ [][C5_MarkedFailed]_vars

C5_Witness ==
  \E p \in Passes :
    /\ ~SawConnected(p)
    /\ pc[p] = "loop" /\ cur[p] # 0
    /\ Status(cur[p]) = "failed"
    /\ \E m \in batch[p] : Status(m) = "pending"

\* C6: a send is issued only while the owner's connection record says
\* 'connected'.
C6_SendOnlyConnected ==
  [][sendLog' # sendLog => profile.instance_status = "connected"]_vars

\* C7: a cancelled broadcast stays cancelled.
C7_CancelledStays ==
  [][\A m \in Ids : Status(m) = "cancelled"
       => scheduled_messages'[m].status = "cancelled"]_vars

\* C8: no broadcast returns to 'pending', and a broadcast in a terminal
\* status ('sent', 'partial', 'failed') keeps it.
C8_Monotonic ==
  [][\A m \in Ids :
       /\ scheduled_messages'[m].status = "pending" => Status(m) = "pending"
       /\ Status(m) \in Terminal => scheduled_messages'[m].status = Status(m)]_vars

\* C9: the rows a pass selects are pending and due at the time of the query,
\* and there are at most 10 of them.
C9_SelectsDue ==
  [][\A p \in Passes :
       pc[p] = "idle" /\ pc'[p] # "idle" =>
         /\ \A m \in batch'[p] :
              Status(m) = "pending" /\ scheduled_messages[m].send_at <= now
         /\ Cardinality(batch'[p]) <= 10]_vars

C9_Witness ==
  \E p \in Passes :
    /\ pc[p] = "loop"
    /\ Cardinality(batch[p]) = 10
    /\ \E m \in Ids \ batch[p] :
         Status(m) = "pending" /\ scheduled_messages[m].send_at <= now
    /\ \E m \in Ids \ batch[p] :
         Status(m) = "pending" /\ scheduled_messages[m].send_at > now
    /\ \E m \in Ids \ batch[p] : Status(m) = "cancelled"

\* C10: a pass takes the rows of its batch in ascending send_at order.
C10_OldestFirst ==
  [][\A p \in Passes :
       pc[p] = "loop" /\ pc'[p] # "loop" /\ cur[p] # 0 =>
         scheduled_messages[cur'[p]].send_at
           >= scheduled_messages[cur[p]].send_at]_vars

\* C11: an error raised while a row is claimed or processed is caught for
\* that row: the pass sets the row to 'failed', keeps the rest of its batch
\* and goes on with it, so that a pass that has returned has taken every row
\* it selected.
C11_Caught ==
  \A p \in Passes :
    pc[p] = "catch" /\ pc'[p] # "catch" =>
      /\ scheduled_messages'[cur[p]].status = "failed"
      /\ batch'[p] = batch[p]
      /\ pc'[p] = IF batch[p] = {} THEN "done" ELSE "loop"

C11_BatchDone == \A p \in Passes : pc[p] = "done" => batch[p] = {}

C12_ExitWrites(p) ==
  /\ pc[p] \in {"markfailed", "final", "catch"} /\ pc'[p] \in {"loop", "done"}
       => scheduled_messages'[cur[p]].status \in Terminal
  /\ pc[p] = "send" => pc'[p] \in {"send", "final"}
  /\ pc[p] = "final" /\ pc'[p] \in {"loop", "done"}
       => { e.idx : e \in SendsBy(p, cur[p]) }
            = 1..Len(scheduled_messages[cur[p]].group_ids)

C12_OnlyExitWrites ==
  \A m \in Ids :
    scheduled_messages'[m].status # Status(m)
      /\ scheduled_messages'[m].status \in Terminal
    => \E p \in Passes :
         /\ cur[p] = m
         /\ pc[p] \in {"markfailed", "final", "catch"}
         /\ pc'[p] \in {"loop", "done"}

C12_NoneSending ==
  (\A p \in Passes : pc[p] = "done") =>
     \A m \in Ids : Status(m) # "sending"

C13_Ends ==
  \A c \in Slots :
    calls[c].kind = "disconnect" /\ calls[c].pc # "done" /\ calls'[c].pc = "done"
      => /\ profiles'[Caller].instance_id = NULL
         /\ profiles'[Caller].whapi_token = NULL
         /\ profiles'[Caller].instance_status = "disconnected"
         /\ calls'[c].resp = "success"

C13_DisconnectResets == [][C13_Ends]_vars

\* a disconnect whose remote delete threw has returned
C13_Witness ==
  \E c \in Slots :
    /\ calls[c].kind = "disconnect" /\ calls[c].pc = "done"
    /\ calls[c].remote = "throw" /\ calls[c].resp = "success"
    /\ profiles[Caller].instance_id = NULL
    /\ profiles[Caller].instance_status = "disconnected"

\* the gateway has reported the existing channel of call c healthy
C14_Healthy(c) ==
  /\ calls[c].kind \in ConnectKinds
  /\ calls[c].pc \notin {"read", "health", "mcheck", "done"}
  /\ calls[c].snap.instance_id # NULL /\ calls[c].snap.whapi_token # NULL
  /\ calls[c].chan = NULL
  /\ calls[c].remote \in {"authenticated", "ready"}

\* C14: a connect call that finds channel id and credential in the row and
\* a healthy gateway (authenticated or ready) returns already_connected,
\* leaves the status 'connected' and neither deletes nor creates a channel;
\* as it leaves the row's channel and credential alone, so does any number
\* of such calls in a row.
C14_Idempotent ==
  [][\A c \in Slots :
       C14_Healthy(c) /\ calls'[c] # calls[c]
         => /\ calls'[c].pc = "done" /\ calls'[c].resp = "already_connected"
            /\ profiles'[Caller].instance_status = "connected"
            /\ profiles'[Caller].instance_id = calls[c].snap.instance_id
            /\ profiles'[Caller].whapi_token = calls[c].snap.whapi_token
            /\ calls[c].ops = {} /\ channels' = channels /\ issued' = issued]_vars

\* C15: a status check that read a channel id from the row and is told by
\* the gateway that the channel is not found clears channel id and
\* credential and answers requiresNewInstance.
C15_SelfHeals ==
  [][\A c \in Slots :
       /\ calls[c].kind \in {"status", "check"}
       /\ calls[c].pc # "done" /\ calls'[c].pc = "done"
       /\ calls[c].snap.instance_id # NULL
       /\ calls'[c].remote = "notfound"
       => /\ profiles'[Caller].instance_id = NULL
          /\ profiles'[Caller].whapi_token = NULL
          /\ calls'[c].resp = "requiresNewInstance"]_vars

\* C16: in every row the credential is there exactly when the channel id
\* is, and a row with status 'connected' has both.
C16_Consistent ==
  \A u \in DOMAIN profiles :
    /\ profiles[u].whapi_token # NULL <=> profiles[u].instance_id # NULL
    /\ profiles[u].instance_status = "connected"
         => profiles[u].instance_id # NULL /\ profiles[u].whapi_token # NULL

\* C17: the status of a row is that of the status write stamped latest: a
\* poll or webhook write that lands with an older updated_at than the row
\* already carries does not change the status.
C17_LastWriteWins ==
  [][\A c \in Slots : \A u \in DOMAIN profiles :
       /\ calls[c].kind \in {"status"} \cup WebhookKinds
       /\ calls[c].pc = "write" /\ calls'[c].pc = "done"
       /\ profiles[u].instance_id # NULL
       /\ profiles'[u].updated_at < profiles[u].updated_at
       => profiles'[u].instance_status = profiles[u].instance_status]_vars

\* the status the receiver of call c stores for the event's status
C18_Mapped(c) ==
  IF calls[c].kind = "webhook" THEN WebhookStatus(calls[c].remote)
  ELSE WebhookSimpleStatus(calls[c].remote)

\* a step of a webhook receiver changes only rows whose channel is the
\* event's, gives them the mapped status, and adds no row
C18_OnlyMatching ==
  \A c \in Slots :
    calls[c].kind \in WebhookKinds /\ calls'[c] # calls[c]
      => /\ DOMAIN profiles' = DOMAIN profiles
         /\ \A u \in DOMAIN profiles :
              profiles'[u] # profiles[u]
                => /\ calls[c].ev # NULL
                   /\ profiles[u].instance_id = calls[c].ev
                   /\ profiles'[u] = StatusUpdate(profiles[u], C18_Mapped(c),
                                                  calls[c].stamp)

\* an accepted event whose channel is that of a row leads to a write
C18_MatchingWrites ==
  \A c \in Slots :
    /\ calls[c].kind \in WebhookKinds /\ calls[c].pc = "lookup"
    /\ calls'[c].pc = "done" /\ calls'[c].resp = "received"
    => \A u \in DOMAIN profiles :
         calls[c].ev = NULL \/ profiles[u].instance_id # calls[c].ev

\* C18: a webhook receiver writes a status if and only if the channel id of
\* the event is the instance_id of a row; an event with an unknown or no
\* channel id changes no row, and no event creates one.
C18_WritesIffKnown == [][C18_OnlyMatching /\ C18_MatchingWrites]_vars

\* an event was stored in the row that holds its channel
C18_Witness ==
  \E c \in Slots :
    /\ calls[c].kind \in WebhookKinds /\ calls[c].pc = "done"
    /\ calls[c].wrote # NULL
    /\ profiles[Caller].instance_id = calls[c].ev
    /\ profiles[Caller].instance_status = calls[c].wrote
    /\ profiles[Caller].updated_at > 0

\* C19: when the event a receiver has just accepted is delivered a second
\* time, the second delivery leaves instance_id, whapi_token and
\* instance_status of every row as the first one left them.
C19_Duplicate ==
  [][\A c \in Slots :
       calls[c].kind \in WebhookKinds /\ calls[c].nth = 2
         => \A u \in DOMAIN profiles :
              Snapshot(profiles'[u]) = Snapshot(profiles[u])]_vars

\* an event was stored on its second delivery as well
C19_Witness ==
  \E c \in Slots :
    /\ calls[c].kind \in WebhookKinds /\ calls[c].pc = "done"
    /\ calls[c].nth = 2 /\ calls[c].wrote # NULL
    /\ profiles[Caller].instance_status = calls[c].wrote

\* the status call c is about to store
C20_Pending(c) ==
  IF calls[c].kind = "status" THEN PollStatus(calls[c].remote)
  ELSE C18_Mapped(c)

\* C20: polling and both webhook receivers store the same status for the
\* same reported status, and 'connected' for authenticated, ready and
\* active.
C20_SameMapping ==
  \A c, d \in Slots :
    /\ calls[c].kind \in {"status"} \cup WebhookKinds /\ calls[c].pc = "write"
    /\ calls[d].kind \in {"status"} \cup WebhookKinds /\ calls[d].pc = "write"
    /\ calls[c].remote = calls[d].remote
    => /\ C20_Pending(c) = C20_Pending(d)
       /\ calls[c].remote \in {"authenticated", "ready", "active"}
            => C20_Pending(c) = "connected"


\* C21: a gateway status that the mapping does not name is stored verbatim
\* as the record's status by the status poll and by the webhook receivers,
\* and a record holding such a status passes no gate.
C21_PassThrough ==
  /\ \A c \in Slots :
       (calls[c].pc = "done" /\ calls[c].remote \in UnlistedStatuses
          /\ calls[c].wrote # NULL)
         => calls[c].wrote = calls[c].remote
  /\ \A u \in Users :
       profiles[u].instance_status \in UnlistedStatuses => ~GateOk(profiles[u])


\* C22: a record whose status is `connected` becomes `disconnected` only in
\* the reset of an explicit Disconnect (or, with its channel forgotten, in
\* the self-healing reset): no status poll, connect call or webhook event
\* writes `disconnected` over `connected`.
C22_Step ==
  \A u \in Users :
    (profiles[u].instance_status = "connected"
       /\ profiles'[u].instance_status = "disconnected")
      => \E c \in Slots :
           \/ At(c, "disconnect", "reset")
           \/ /\ calls[c].remote = "notfound"
              /\ profiles'[u].instance_id = NULL

C22_OnlyDisconnect == [][C22_Step]_vars


\* C23: a connect call that finds the user without a channel comes to its
\* end: no loop or recursion of it, the pairing-code helper included, goes
\* on without bound.
C23_Terminates ==
  \A c \in Slots :
    (calls[c].kind \in ConnectKinds /\ calls[c].pc \notin {"read", "done"}
       /\ calls[c].snap.instance_id = NULL)
      ~> (calls[c].pc = "done")


\* C24: the request for the pairing code is retried at most twice, after
\* a delay of 2 s and then of 4 s, and only after a transient failure; an
\* error answer that is not retryable is returned at once, and a transient
\* failure is given up only when both retries are used.
C24_Delays(c) ==
  calls[c].kind = "getqr" =>
    /\ calls[c].attempts <= 2
    /\ Len(calls[c].slept) = calls[c].attempts
    /\ calls[c].slept \in {<<>>, <<2000>>, <<2000, 4000>>}

C24_Step ==
  \A c \in Slots :
    At(c, "getqr", "qr") =>
      /\ calls'[c].pc = "backoff" =>
            calls'[c].remote \in {"transient", "throw"} /\ calls[c].attempts < 2
      /\ calls'[c].remote = "rejected" =>
            calls'[c].pc = "done" /\ calls'[c].resp = "failed"
      /\ (calls'[c].resp = "failed" /\ calls'[c].remote \in {"transient", "throw"})
            => calls[c].attempts = 2

RECURSIVE C25_Sum(_)
C25_Sum(seq) == IF seq = <<>> THEN 0 ELSE Head(seq) + C25_Sum(Tail(seq))

C25_Age(c) ==
  IF calls[c].kind = "getqr" THEN calls[c].age ELSE C25_Sum(calls[c].slept)

C25_Growing(seq) == \A i \in 2..Len(seq) : seq[i] = 2 * seq[i - 1]

C25_AgeOrBackoff ==
  \A c \in Slots :
    (At(c, "connect", "pollqr") \/ At(c, "getqr", "qr"))
      => (C25_Age(c) >= 60000 \/ C25_Growing(calls[c].slept))


\* C26: whatever comes of the deletion of the previous channel and of the
\* registration of the webhook, connect goes on to create and to store the
\* new channel, and once the channel is created it does not answer with an
\* error.
C26_Step ==
  \A c \in Slots :
    calls[c].kind \in ConnectKinds =>
      /\ calls[c].pc = "cleanup" => calls'[c].pc = "create"
      /\ calls[c].pc = "webhook" => calls'[c].pc = "save"
      /\ calls[c].pc = "mwebhook" => calls'[c].pc = "mqr"
      /\ (calls[c].pc = "save" /\ calls'[c].pc # "save") =>
            /\ profiles'[Caller].instance_id = calls[c].chan
            /\ profiles'[Caller].instance_status = "initializing"
      /\ ("create" \in calls[c].ops /\ calls'[c].pc = "done") =>
            calls'[c].resp \in {"qr_code", "pending", "already_connected"}

C27_NoGoneChannel ==
  \A c \in Slots :
    (calls[c].kind \in ConnectKinds \cup {"getqr"} /\ calls[c].pc = "done"
       /\ calls[c].remote = "notfound")
      => /\ profiles[Caller].instance_id \in channels \cup {NULL}
         /\ profiles[Caller].instance_id = NULL =>
               /\ profiles[Caller].whapi_token = NULL
               /\ calls[c].resp = "requiresNewInstance"


\* C28: a handler other than disconnect clears the record's channel id and
\* credential only when the gateway has answered that the channel does not
\* exist; a failed request of any other kind leaves them alone.
C28_Step ==
  \A c \in Slots :
    (calls[c].pc \notin {"done", "closed"} /\ calls[c].kind # "disconnect"
       /\ profiles[Caller].instance_id # NULL
       /\ profiles'[Caller].instance_id = NULL)
      => calls[c].remote = "notfound"

C28_OnlyAbsenceResets == [][C28_Step]_vars


\* C29: connect comes to delete the existing channel or to create a new
\* one only when the record named no channel with a credential or the
\* gateway could not be reached for it; a channel that answered, whatever
\* its status and whether or not its pairing code could be fetched, is kept.
C29_CreateOnlyIfUnusable ==
  \A c \in Slots :
    (calls[c].kind \in ConnectKinds /\ calls[c].pc \in {"cleanup", "create"})
      => \/ calls[c].snap.instance_id = NULL
         \/ calls[c].snap.whapi_token = NULL
         \/ calls[c].remote \in Failures


\* C30: a status check creates no channel and deletes none, and changes
\* the record's channel id or credential only when the gateway has
\* answered that the channel does not exist.
C30_Step ==
  \A c \in Slots :
    (calls[c].kind \in StatusKinds /\ calls[c].pc \notin {"done", "closed"})
      => /\ channels' = channels
         /\ issued' = issued
         /\ \A u \in Users :
              (profiles'[u].instance_id # profiles[u].instance_id
                 \/ profiles'[u].whapi_token # profiles[u].whapi_token)
                => calls[c].remote = "notfound"

C30_StatusFrame == [][C30_Step]_vars

C30_Witness ==
  \E c \in Slots :
    /\ calls[c].kind \in StatusKinds /\ calls[c].pc = "done"
    /\ calls[c].wrote \notin {NULL, "disconnected"}
    /\ profiles[Caller].instance_status = calls[c].wrote
    /\ profiles[Caller].instance_id \in channels

\* C31: sync-groups and send-message for a user whose row has no token or
\* whose status is not 'connected' return the error in the step that read
\* the row, and an invocation that has sent a request to the gateway or
\* written a row of whatsapp_groups or message_history read a row with a
\* token and the status 'connected'.
C31_Step(c) ==
  calls[c].kind \in ActionKinds =>
    /\ ( /\ calls[c].pc = "read"
         /\ \/ profiles[Caller].whapi_token = NULL
            \/ profiles[Caller].instance_status # "connected" )
       => /\ calls'[c].pc = "done"
          /\ calls'[c].resp = "not_connected"
          /\ calls'[c].ops = {}
    /\ calls'[c].ops # {}
       => /\ calls'[c].snap.whapi_token # NULL
          /\ calls'[c].snap.instance_status = "connected"
C31_FailsFast == [][\A c \in Slots : C31_Step(c)]_vars

\* a send-message was refused for a user who holds a token
C31_Witness ==
  \E c \in Slots :
    /\ calls[c].kind = "send" /\ calls[c].pc = "done"
    /\ calls[c].resp = "not_connected"
    /\ profiles[Caller].whapi_token # NULL
    /\ profiles[Caller].instance_status = "unauthorized"

\* C32: the pairing code in the body of every response that carries one
\* begins with "data:image/".
C32_SelfDescribing ==
  \A c \in Slots :
    (calls[c].pc = "done" /\ calls[c].resp = "qr_code")
      => StartsWith(calls[c].code, "data:image/")

\* C33: the group_ids of a stored broadcast name no group twice, and the
\* scheduler sends to the groups stored with the row and to no others.
C33_NoDuplicates ==
  \A m \in Ids :
    /\ \A i, j \in 1..Len(scheduled_messages[m].group_ids) :
         scheduled_messages[m].group_ids[i] = scheduled_messages[m].group_ids[j]
           => i = j
    /\ \A e \in sendLog :
         e.id = m => e.idx \in 1..Len(scheduled_messages[m].group_ids)

\* C38: every row of scheduled_messages has at least one recipient.
C38_HasRecipient ==
  \A m \in Ids : Len(scheduled_messages[m].group_ids) >= 1

\* C34: when a status poll that observed the health h returns, the stored
\* status of the user is the status h maps to.
C34_Step(c) ==
  ( /\ calls[c].kind = "status" /\ calls[c].pc # "done"
    /\ calls'[c].pc = "done"
    /\ calls'[c].remote \notin Failures \cup {NULL} )
  => profiles'[Caller].instance_status = PollStatus(calls'[c].remote)
C34_PollWins == [][\A c \in Slots : C34_Step(c)]_vars

\* C36: a connect call that has deleted the user's previous channel and
\* returns an error from the creation of the new one does not leave the
\* deleted channel's id in the user's row.
C36_Step(c) ==
  ( /\ calls[c].kind \in ConnectKinds /\ calls[c].pc = "create"
    /\ calls'[c].pc = "done" /\ calls'[c].resp = "error"
    /\ "delete" \in calls[c].ops /\ "deletefailed" \notin calls[c].ops )
  => profiles'[Caller].instance_id # calls[c].snap.instance_id
C36_NoDeletedChannel == [][\A c \in Slots : C36_Step(c)]_vars

\* C35: once the connect calls of a user, none of which found a channel in
\* the user's row, have all returned, every channel on the gateway is the
\* one whose id and token the row holds.
C35_NoOrphan ==
  ( \A c \in Slots :
      /\ calls[c].kind = "connect" /\ calls[c].pc = "done"
      /\ calls[c].remote = NULL )
  => \A ch \in channels :
       /\ profiles[Caller].instance_id = ch
       /\ ChannelOf(profiles[Caller].whapi_token) = ch

\* C37: in create-channel, a save that failed or touched no row leaves the
\* user's row as it was and is followed by the deletion request for the
\* channel just created and by an error response; a save that succeeded
\* leaves the new id, the new token and 'initializing' in the row.
C37_Step(c) ==
  /\ At(c, "createChannel", "save")
     => \/ /\ profiles' = profiles
           /\ calls'[c].pc = "cleanup" /\ calls'[c].chan = calls[c].chan
        \/ /\ calls'[c].pc = "done" /\ calls'[c].resp = "created"
           /\ profiles'[Caller].instance_id = calls[c].chan
           /\ profiles'[Caller].whapi_token = calls[c].tok
           /\ profiles'[Caller].instance_status = "initializing"
  /\ At(c, "createChannel", "cleanup")
     => /\ profiles' = profiles
        /\ calls'[c].pc = "done" /\ calls'[c].resp = "error"
        /\ channels' \subseteq channels
        /\ calls'[c].remote = "ok" => calls[c].chan \notin channels'
C37_SaveOrCleanup == [][\A c \in Slots : C37_Step(c)]_vars

\* a create-channel call returned an error after its new channel was
\* deleted, and the row does not name that channel
C37_Witness ==
  \E c \in Slots :
    /\ calls[c].kind = "createChannel" /\ calls[c].pc = "done"
    /\ calls[c].resp = "error" /\ calls[c].remote = "ok"
    /\ issued >= 1 /\ Chan(issued) \notin channels
    /\ profiles[Caller].instance_id # Chan(issued)

====
